---------------------------- MODULE Spec2Model ----------------------------
(***************************************************************************)
(* Verification model of the pxt-engine GPU-resource layer:                *)
(*   - Buffer            (Engine/src/graphics/resources/buffer.cpp)        *)
(*   - DescriptorPool, DescriptorWriter                                    *)
(*                       (Engine/src/graphics/descriptors.cpp,             *)
(*                        Engine/src/graphics/descriptors/                 *)
(*                        descriptor_writer.cpp)                           *)
(*   - DescriptorAllocatorGrowable (constructed and called from            *)
(*                        Engine/src/application.cpp; its body is not part *)
(*                        of the sources and is modelled from the design   *)
(*                        document)                                        *)
(*                                                                         *)
(* The module holds several specifications over one set of variables; each *)
(* specification drives one component and parks the others.                *)
(*   SpecAlign : Buffer::getAlignment as a pure function                   *)
(*   Spec      : one Buffer object and its host mapping                    *)
(*   SpecFlush : one Buffer object, its mapping, flush and invalidate      *)
(*   SpecPool  : one DescriptorPool and one DescriptorWriter               *)
(*   SpecWriter: one DescriptorWriter on a built layout and a small pool   *)
(*               in a build with assertions                                *)
(*   SpecLayout: one DescriptorSetLayout::Builder                          *)
(*   SpecLayoutUse: builder, built layout and writer, in a build with or   *)
(*               without assertions                                        *)
(*   SpecGrow  : the growable allocator under the frame loop               *)
(*   SpecCtor  : one Buffer of any element size and its index helpers      *)
(*   SpecModel : the two staged uploads of the Model constructor           *)
(*   SpecEvent : one Event and the Dispatch calls made on it               *)
(*   SpecApp   : the loop of Application::run and the events delivered to  *)
(*               Application::onEvent; SpecAppFair adds that the loop     *)
(*               keeps running                                             *)
(*   SpecLoad  : Model::Builder::loadModel on the indices of a file        *)
(*   SpecMesh  : the mesh-instance records built from a scene              *)
(*   SpecLife  : one Buffer on host-visible or device-local memory, from   *)
(*               construction to destruction                               *)
(***************************************************************************)
EXTENDS Integers, Naturals, Sequences, FiniteSets, TLC

VARIABLES
    \* ---- Buffer::getAlignment call (SpecAlign)
    argInstanceSize,        \* argument instanceSize
    argMinOffsetAlignment,  \* argument minOffsetAlignment
    alignResult,            \* value returned
    alignPc,                \* "off" | "call" | "returned"
    \* ---- Buffer object (Spec)
    m_instanceSize,
    m_instanceCount,
    m_alignmentSize,
    m_bufferSize,
    m_memoryPropertyFlags,  \* the VkMemoryPropertyFlags the memory was allocated with
    m_mapped,               \* NULL, or the memory offset the host pointer points at
    mappedSize,             \* device side: length of the mapped range (0 when unmapped)
    memory,                 \* the bytes of the buffer's memory, offsets 0..m_bufferSize-1
    overrun,                \* TRUE once a memcpy has written past the end of the memory
    bufPc,                  \* "off" | "alive" | "aborted" | "crashed" | "destroyed"
    bufCall,                \* the last Buffer member call and its arguments
    \* ---- DescriptorPool and the device's record of it (SpecPool, SpecWriter)
    m_maxSets,              \* VkDescriptorPoolCreateInfo::maxSets
    m_poolSizes,            \* descriptor type -> descriptorCount declared
    m_poolFlags,            \* set of creation flags
    poolSets,               \* device: live set handle -> the layout it was allocated with
    poolFragmented,         \* device: sets were freed one by one since the last reset
    descriptors,            \* device: live set handle -> binding -> the info written
    invalidUpdate,          \* device: an update was submitted against a set that is not live
    poolPc,                 \* "off" | "alive" | "aborted"
    poolCall,               \* the last DescriptorPool / DescriptorWriter call
    \* ---- DescriptorWriter
    m_setLayout,            \* the layout the writer was constructed with
    m_writes,               \* pending VkWriteDescriptorSet records
    \* ---- DescriptorSetLayout and its Builder (SpecLayout, SpecWriter)
    NDEBUG,                 \* the build compiles assert() out
    builderBindings,        \* DescriptorSetLayout::Builder::m_bindings
    layoutBindings,         \* DescriptorSetLayout::m_bindings of the layout built
    layoutPc,               \* "off" | "building" | "built" | "aborted"
    \* ---- DescriptorAllocatorGrowable under the frame loop (SpecGrow)
    readyPool,              \* frame slot -> the pool new sets are taken from
    fullPools,              \* frame slot -> pools that rejected an allocation
    freePools,              \* frame slot -> reset pools waiting to be used again
    gpuBusy,                \* frame slot -> its submitted GPU work has not completed
    frameIndex,             \* the slot of the frame the CPU records or records next
    allocsThisFrame,        \* allocate calls in the frame being recorded
    frameCount,             \* frames begun so far
    growPc,                 \* "off" | "between" | "recording" | "fatal"
    growCall,               \* the last allocator / frame-loop call
    \* ---- Model and the uploads of its constructor (SpecModel)
    argVertices,            \* builder.vertices, as the bytes vertices.data() points at
    argIndices,             \* builder.indices, as the bytes indices.data() points at
    m_vertexCount,
    m_indexCount,
    m_hasIndexBuffer,
    m_vertexBuffer,         \* NoBuffer, or the device-local Buffer it owns
    m_indexBuffer,          \* NoBuffer, or the device-local Buffer it owns
    buffersCreated,         \* the number of buffer handles the device has handed out
    modelLog,               \* the Buffer and Context calls made so far, in order
    modelPc,                \* "off" | "constructing" | "vertices" | "done" | "aborted" | "crashed"
    \* ---- one Event and the EventDispatcher calls made on it (SpecEvent)
    eventType,              \* Event::GetEventType() of the event, "none" without one
    m_handled,              \* Event::m_handled
    dispatches,             \* Dispatch calls made on the event
    dispatchCall,           \* the last Dispatch call: T, what func returns, what happened
    \* ---- Application::run and Application::onEvent (SpecApp)
    m_running,              \* Application::m_running
    shouldClose,            \* m_window.shouldClose()
    runPc,                  \* where run is: "off" | "loopTest" | "poll" | "callback" |
                            \* "beginFrame" | "update" | "render" | "endFrame" |
                            \* "waitIdle" | "returned"
    iterations,             \* iterations of the loop started so far
    pending,                \* window events glfwPollEvents has still to deliver
    closeDelivered,         \* a WindowCloseEvent has been passed to onEvent
    evLog,                  \* the last onEvent call: who received the event
    currentFrameIndex,      \* the renderer's frame slot, as getFrameIndex returns it
    frameLog,               \* the renderer and buffer calls of the iteration in progress
    uboBuffers,             \* frame slot -> the iteration its uniform buffer was last written in
    \* ---- Model::Builder::loadModel (SpecLoad)
    attrib,                 \* tinyobj::attrib_t: vertices, colors, normals, texcoords
    meshIndices,            \* shape.mesh.indices of the shapes, in iteration order
    vertices,               \* Builder::vertices
    indices,                \* Builder::indices
    loadPc,                 \* "off" | "call" | "loaded" | "threw"
    \* ---- RayTracingSceneManagerSystem: the mesh-instance buffer (SpecMesh)
    sceneEntities,          \* the scene's entities in iteration order
    m_meshInstanceData,     \* the Mesh Instance Records of the last build
    meshBuilds,             \* builds made so far
    meshPc                  \* "off" | "idle"

alignVars == <<argInstanceSize, argMinOffsetAlignment, alignResult, alignPc>>

bufVars == <<m_instanceSize, m_instanceCount, m_alignmentSize, m_bufferSize,
             m_memoryPropertyFlags,
             m_mapped, mappedSize, memory, overrun, bufPc, bufCall>>

poolVars == <<m_maxSets, m_poolSizes, m_poolFlags, poolSets, poolFragmented,
              descriptors, invalidUpdate, poolPc, poolCall, m_setLayout, m_writes>>

layoutVars == <<NDEBUG, builderBindings, layoutBindings, layoutPc>>

growVars == <<readyPool, fullPools, freePools, gpuBusy, frameIndex, allocsThisFrame,
              frameCount, growPc, growCall>>

modelVars ==
    <<argVertices, argIndices, m_vertexCount, m_indexCount, m_hasIndexBuffer, m_vertexBuffer, m_indexBuffer, buffersCreated, modelLog, modelPc>>

eventVars ==
    <<eventType, m_handled, dispatches, dispatchCall>>

appVars ==
    <<m_running, shouldClose, runPc, iterations, pending, closeDelivered, evLog, currentFrameIndex, frameLog, uboBuffers>>

loadVars ==
    <<attrib, meshIndices, vertices, indices, loadPc>>

meshVars ==
    <<sceneEntities, m_meshInstanceData, meshBuilds, meshPc>>

vars ==
    <<alignVars, bufVars, poolVars, layoutVars, growVars, modelVars, eventVars, appVars, loadVars, meshVars>>

notAlign ==
    <<bufVars, poolVars, layoutVars, growVars, modelVars, eventVars, appVars, loadVars, meshVars>>

notBuf ==
    <<alignVars, poolVars, layoutVars, growVars, modelVars, eventVars, appVars, loadVars, meshVars>>

notPool ==
    <<alignVars, bufVars, layoutVars, growVars, modelVars, eventVars, appVars, loadVars, meshVars>>

notWriter ==
    <<alignVars, bufVars, growVars, modelVars, eventVars, appVars, loadVars, meshVars>>

notGrow ==
    <<alignVars, bufVars, poolVars, layoutVars, modelVars, eventVars, appVars, loadVars, meshVars>>

notModel ==
    <<alignVars, bufVars, poolVars, layoutVars, growVars, eventVars, appVars, loadVars, meshVars>>

notEvent ==
    <<alignVars, bufVars, poolVars, layoutVars, growVars, modelVars, appVars, loadVars, meshVars>>

notApp ==
    <<alignVars, bufVars, poolVars, layoutVars, growVars, modelVars, eventVars, loadVars, meshVars>>

notLoad ==
    <<alignVars, bufVars, poolVars, layoutVars, growVars, modelVars, eventVars, appVars, meshVars>>

notMesh ==
    <<alignVars, bufVars, poolVars, layoutVars, growVars, modelVars, eventVars, appVars, loadVars>>

----------------------------------------------------------------------------
(* Bounds of the model *)

\* VkDeviceSize is a 64-bit unsigned integer; the model keeps the wrap-around
\* arithmetic and scales the width down to this many bits.
DeviceSizeBits == 12

\* getAlignment is tried with every minOffsetAlignment up to this value, and
\* with every power of two that fits the width.
MaxSmallAlignment == 8

MaxInstanceSize == 1

MaxInstanceCount == 3

----------------------------------------------------------------------------
(* Unsigned arithmetic of VkDeviceSize *)

RECURSIVE Pow2(_)
Pow2(n) ==
    IF n = 0 THEN 1 ELSE 2 * Pow2(n - 1)

DeviceSizeMod == Pow2(DeviceSizeBits)

DeviceSize == 0 .. (DeviceSizeMod - 1)

Wrap(x) ==
    x % DeviceSizeMod

\* a & b
RECURSIVE BitAnd(_, _)
BitAnd(a, b) ==
    IF a = 0 \/ b = 0 THEN 0
    ELSE (a % 2) * (b % 2) + 2 * BitAnd(a \div 2, b \div 2)

\* ~a
BitNot(a) ==
    (DeviceSizeMod - 1) - a

\* VK_WHOLE_SIZE is (~0ULL)
VK_WHOLE_SIZE ==
    BitNot(0)

NULL == -1

----------------------------------------------------------------------------
(* Buffer::getAlignment *)

\* mutant: rounds down to a multiple instead of up
getAlignment_RoundDown(instanceSize, minOffsetAlignment) ==
    IF minOffsetAlignment > 0
    THEN BitAnd(instanceSize, BitNot(minOffsetAlignment - 1))
    ELSE instanceSize

\* mutant: forgets the "- 1", so an aligned size is pushed to the next multiple
getAlignment_NoMinusOne(instanceSize, minOffsetAlignment) ==
    IF minOffsetAlignment > 0
    THEN BitAnd(Wrap(instanceSize + minOffsetAlignment),
                BitNot(minOffsetAlignment - 1))
    ELSE instanceSize

getAlignment(instanceSize, minOffsetAlignment) ==
    IF minOffsetAlignment > 0
    THEN BitAnd(Wrap(instanceSize + minOffsetAlignment - 1),
                BitNot(minOffsetAlignment - 1))
    ELSE instanceSize

PowersOfTwo == { Pow2(k) : k \in 0 .. (DeviceSizeBits - 1) }

AlignmentInputs == (0 .. MaxSmallAlignment) \cup PowersOfTwo

ParkedAlign ==
    /\ argInstanceSize = 0
    /\ argMinOffsetAlignment = 0
    /\ alignResult = 0
    /\ alignPc = "off"

InitAlign ==
    /\ argInstanceSize \in DeviceSize
    /\ argMinOffsetAlignment \in AlignmentInputs
    /\ alignResult = 0
    /\ alignPc = "call"

GetAlignmentCall ==
    /\ alignPc = "call"
    /\ alignResult' = getAlignment(argInstanceSize, argMinOffsetAlignment)
    /\ alignPc' = "returned"
    /\ UNCHANGED <<argInstanceSize, argMinOffsetAlignment>>
    /\ UNCHANGED notAlign

----------------------------------------------------------------------------
(* Buffer: construction, host mapping, writes *)

\* minOffsetAlignment values a Buffer is constructed with
MaxMinOffsetAlignment == 2

\* a byte, abstracted to its lowest bit
Byte == {0, 1}

\* The data a caller passes: n bytes, distinct from position to position.
Data(v, n) ==
    [k \in 1 .. n |-> (v + k) % 2]

HOST_VISIBLE == "VK_MEMORY_PROPERTY_HOST_VISIBLE_BIT"

HOST_COHERENT == "VK_MEMORY_PROPERTY_HOST_COHERENT_BIT"

DEVICE_LOCAL == "VK_MEMORY_PROPERTY_DEVICE_LOCAL_BIT"

ParkedBuffer ==
    /\ m_instanceSize = 0
    /\ m_instanceCount = 0
    /\ m_alignmentSize = 0
    /\ m_bufferSize = 0
    /\ m_memoryPropertyFlags = {}
    /\ m_mapped = NULL
    /\ mappedSize = 0
    /\ memory = <<>>
    /\ overrun = FALSE
    /\ bufPc = "off"
    /\ bufCall = [op |-> "none"]

\* Buffer::Buffer. The program never reads the bytes createBuffer hands out
\* before it writes them; they start as 0.
Buffer(instanceSize, instanceCount, memoryPropertyFlags, minOffsetAlignment) ==
    /\ m_instanceSize = instanceSize
    /\ m_instanceCount = instanceCount
    /\ m_memoryPropertyFlags = memoryPropertyFlags
    /\ m_alignmentSize = getAlignment(instanceSize, minOffsetAlignment)
    /\ m_bufferSize = Wrap(getAlignment(instanceSize, minOffsetAlignment) * instanceCount)
    /\ m_mapped = NULL
    /\ mappedSize = 0
    /\ memory = [k \in 0 .. (Wrap(getAlignment(instanceSize, minOffsetAlignment)
                                  * instanceCount) - 1) |-> 0]
    /\ overrun = FALSE
    /\ bufPc = "alive"
    /\ bufCall = [op |-> "Buffer"]

\* a host-visible Buffer, as the uniform and staging buffers are
InitBuffer ==
    \E instanceSize \in 1 .. MaxInstanceSize,
       instanceCount \in 1 .. MaxInstanceCount,
       minOffsetAlignment \in 0 .. MaxMinOffsetAlignment :
        Buffer(instanceSize, instanceCount, {HOST_VISIBLE, HOST_COHERENT},
               minOffsetAlignment)

\* a Buffer on host-visible or on device-local memory
InitBufferAnyMemory ==
    \E instanceSize \in 1 .. MaxInstanceSize,
       instanceCount \in 1 .. MaxInstanceCount,
       memoryPropertyFlags \in {{HOST_VISIBLE, HOST_COHERENT}, {DEVICE_LOCAL}},
       minOffsetAlignment \in 0 .. MaxMinOffsetAlignment :
        Buffer(instanceSize, instanceCount, memoryPropertyFlags, minOffsetAlignment)

\* The offsets and sizes a caller maps: from an element's start, one element
\* or (VK_WHOLE_SIZE) the rest of the memory.
MapOffsets == { k * m_alignmentSize : k \in 0 .. (m_instanceCount - 1) }

MapSizes(offset) ==
    {VK_WHOLE_SIZE, m_alignmentSize}

\* vkMapMemory: the length of the range mapped by (offset, size)
VkMappedLength(size, offset) ==
    IF size = VK_WHOLE_SIZE THEN m_bufferSize - offset ELSE size

\* Buffer::map. vkMapMemory writes the host pointer, which points at byte
\* `offset` of the memory. Mapping memory that is already mapped, or memory
\* that is not host-visible, is invalid usage, and map passes the request on
\* without a check of its own: the driver either refuses and leaves the
\* pointer, or maps and writes it.
map(size, offset) ==
    /\ bufPc = "alive"
    /\ \/ /\ m_mapped' = offset
          /\ mappedSize' = VkMappedLength(size, offset)
          /\ bufCall' = [op |-> "map", result |-> "VK_SUCCESS"]
       \/ /\ m_mapped # NULL \/ HOST_VISIBLE \notin m_memoryPropertyFlags
          /\ UNCHANGED <<m_mapped, mappedSize>>
          /\ bufCall' = [op |-> "map", result |-> "VK_ERROR_MEMORY_MAP_FAILED"]
    /\ UNCHANGED <<m_instanceSize, m_instanceCount, m_alignmentSize, m_bufferSize,
                   m_memoryPropertyFlags,
                   memory, overrun, bufPc>>
    /\ UNCHANGED notBuf

\* mutant: vkUnmapMemory is issued whether or not the buffer is mapped
unmapDevice_Always ==
    <<"vkUnmapMemory">>

\* the device calls Buffer::unmap issues
unmapDevice ==
    IF m_mapped # NULL THEN <<"vkUnmapMemory">> ELSE <<>>

\* Buffer::unmap
unmap ==
    /\ bufPc = "alive"
    /\ IF m_mapped # NULL
       THEN m_mapped' = NULL /\ mappedSize' = 0
       ELSE UNCHANGED <<m_mapped, mappedSize>>
    /\ bufCall' = [op |-> "unmap", device |-> unmapDevice]
    /\ UNCHANGED <<m_instanceSize, m_instanceCount, m_alignmentSize, m_bufferSize,
                   m_memoryPropertyFlags,
                   memory, overrun, bufPc>>
    /\ UNCHANGED notBuf

\* Buffer::~Buffer: unmap(), vkDestroyBuffer, vkFreeMemory. The memory is
\* gone afterwards.
BufferDestructor ==
    /\ bufPc = "alive"
    /\ m_mapped' = NULL
    /\ mappedSize' = 0
    /\ bufCall' = [op |-> "~Buffer",
                   device |-> unmapDevice \o <<"vkDestroyBuffer", "vkFreeMemory">>]
    /\ memory' = <<>>
    /\ bufPc' = "destroyed"
    /\ UNCHANGED <<m_instanceSize, m_instanceCount, m_alignmentSize, m_bufferSize,
                   m_memoryPropertyFlags, overrun>>
    /\ UNCHANGED notBuf

\* memcpy(dst, data, n) into the buffer's memory; bytes that fall outside the
\* memory are not part of `memory`.
Memcpy(mem, dst, data, n) ==
    [k \in DOMAIN mem |->
        IF k >= dst /\ k < dst + n THEN data[k - dst + 1] ELSE mem[k]]

\* mutant: no check of m_mapped; a null pointer is taken as the start of the
\* memory
writeToBuffer_NoCheck(data, size, offset) ==
    LET base == IF m_mapped = NULL THEN 0 ELSE m_mapped
        n == IF size = VK_WHOLE_SIZE THEN m_bufferSize ELSE size
        dst == IF size = VK_WHOLE_SIZE THEN base ELSE base + offset
    IN /\ memory' = Memcpy(memory, dst, data, n)
       /\ overrun' = (overrun \/ dst + n > m_bufferSize)
       /\ UNCHANGED bufPc

\* mutant: the whole-size copy starts at the offset too
writeToBuffer_WholeAtOffset(data, size, offset) ==
    LET n == IF size = VK_WHOLE_SIZE THEN m_bufferSize ELSE size
        dst == m_mapped + offset
    IN IF m_mapped = NULL
       THEN /\ bufPc' = "aborted"
            /\ UNCHANGED <<memory, overrun>>
       ELSE /\ memory' = Memcpy(memory, dst, data, n)
            /\ overrun' = (overrun \/ dst + n > m_mapped + mappedSize)
            /\ UNCHANGED bufPc

\* Buffer::writeToBuffer. The assertion aborts a debug build; a build without
\* assertions copies through a null pointer and faults. A copy that runs past
\* the end of the mapped range either faults or lands the bytes that fall into
\* the memory.
writeToBuffer(data, size, offset) ==
    IF m_mapped = NULL
    THEN /\ bufPc' \in {"aborted", "crashed"}
         /\ UNCHANGED <<memory, overrun>>
    ELSE LET n == IF size = VK_WHOLE_SIZE THEN m_bufferSize ELSE size
             dst == IF size = VK_WHOLE_SIZE THEN m_mapped ELSE m_mapped + offset
         IN IF dst + n <= m_mapped + mappedSize
            THEN /\ memory' = Memcpy(memory, dst, data, n)
                 /\ UNCHANGED <<bufPc, overrun>>
            ELSE \/ /\ memory' = Memcpy(memory, dst, data, n)
                    /\ overrun' = TRUE
                    /\ UNCHANGED bufPc
                 \/ /\ bufPc' = "crashed"
                    /\ UNCHANGED <<memory, overrun>>

\* a direct call of writeToBuffer: the whole buffer, or one element's bytes at
\* an element offset
writeToBufferCall(v, size, offset) ==
    /\ bufPc = "alive"
    /\ writeToBuffer(Data(v, IF size = VK_WHOLE_SIZE THEN m_bufferSize ELSE size),
                     size, offset)
    /\ bufCall' = [op |-> "writeToBuffer", v |-> v, size |-> size, offset |-> offset]
    /\ UNCHANGED <<m_instanceSize, m_instanceCount, m_alignmentSize, m_bufferSize,
                   m_memoryPropertyFlags,
                   m_mapped, mappedSize>>
    /\ UNCHANGED notBuf

\* Buffer::writeToIndex
writeToIndex(data, index) ==
    writeToBuffer(data, m_instanceSize, Wrap(index * m_alignmentSize))

writeToIndexCall(v, index) ==
    /\ bufPc = "alive"
    /\ writeToIndex(Data(v, m_instanceSize), index)
    /\ bufCall' = [op |-> "writeToIndex", data |-> Data(v, m_instanceSize),
                   index |-> index]
    /\ UNCHANGED <<m_instanceSize, m_instanceCount, m_alignmentSize, m_bufferSize,
                   m_memoryPropertyFlags,
                   m_mapped, mappedSize>>
    /\ UNCHANGED notBuf

\* Buffer::descriptorInfo (the buffer handle is left out)
descriptorInfo(size, offset) ==
    [offset |-> offset, range |-> size]

\* mutant: the element after the one asked for
descriptorInfoForIndex_NextElement(index) ==
    descriptorInfo(m_alignmentSize, Wrap((index + 1) * m_alignmentSize))

\* Buffer::descriptorInfoForIndex
descriptorInfoForIndex(index) ==
    descriptorInfo(m_alignmentSize, Wrap(index * m_alignmentSize))

Indices == 0 .. (m_instanceCount - 1)

\* a call of descriptorInfoForIndex; the VkDescriptorBufferInfo goes to the caller
descriptorInfoForIndexCall(index) ==
    /\ bufPc = "alive"
    /\ bufCall' = [op |-> "descriptorInfoForIndex", index |-> index,
                   info |-> descriptorInfoForIndex(index)]
    /\ UNCHANGED <<m_instanceSize, m_instanceCount, m_alignmentSize, m_bufferSize,
                   m_memoryPropertyFlags, m_mapped, mappedSize, memory, overrun, bufPc>>
    /\ UNCHANGED notBuf

\* the offsets writeToBuffer is called with directly: the first two elements
WriteOffsets == MapOffsets \cap {0, m_alignmentSize}

\* the VkMappedMemoryRange flush and invalidate fill in
MappedRange(size, offset) ==
    [offset |-> offset, size |-> size]

\* the range lies in the memory range that is mapped
RangeIsMapped(range) ==
    /\ m_mapped # NULL
    /\ range.offset >= m_mapped
    /\ \/ range.size = VK_WHOLE_SIZE
       \/ range.offset + range.size <= m_mapped + mappedSize

\* vkFlushMappedMemoryRanges / vkInvalidateMappedMemoryRanges on one range:
\* the results the device can give. A range that is not mapped is invalid
\* usage, which the driver may or may not report.
VkMappedRangeResults(range) ==
    IF RangeIsMapped(range)
    THEN {"VK_SUCCESS"}
    ELSE {"VK_SUCCESS", "VK_ERROR_MEMORY_MAP_FAILED"}

\* a flush or invalidate member call: the request goes to the device and its
\* result is returned
rangeCall(op, request, range) ==
    /\ bufPc = "alive"
    /\ \E result \in VkMappedRangeResults(range) :
          bufCall' = [op |-> op, issued |-> request, range |-> range,
                      result |-> result]
    /\ UNCHANGED <<m_instanceSize, m_instanceCount, m_alignmentSize, m_bufferSize,
                   m_memoryPropertyFlags,
                   m_mapped, mappedSize, memory, overrun, bufPc>>
    /\ UNCHANGED notBuf

\* Buffer::flush
flush(size, offset) ==
    rangeCall("flush", "vkFlushMappedMemoryRanges", MappedRange(size, offset))

\* Buffer::invalidate
invalidate(size, offset) ==
    rangeCall("invalidate", "vkInvalidateMappedMemoryRanges", MappedRange(size, offset))

\* Buffer::flushIndex
flushIndex(index) ==
    rangeCall("flushIndex", "vkFlushMappedMemoryRanges",
              MappedRange(m_alignmentSize, Wrap(index * m_alignmentSize)))

\* Buffer::invalidateIndex
invalidateIndex(index) ==
    rangeCall("invalidateIndex", "vkInvalidateMappedMemoryRanges",
              MappedRange(m_alignmentSize, Wrap(index * m_alignmentSize)))

\* map, unmap and the flush / invalidate calls of one Buffer
NextFlush ==
    \/ \E offset \in MapOffsets : \E size \in MapSizes(offset) : map(size, offset)
    \/ unmap
    \/ \E offset \in MapOffsets, size \in {VK_WHOLE_SIZE, m_alignmentSize} :
          flush(size, offset)
    \/ \E offset \in MapOffsets, size \in {VK_WHOLE_SIZE, m_alignmentSize} :
          invalidate(size, offset)
    \/ \E index \in Indices : flushIndex(index)
    \/ \E index \in Indices : invalidateIndex(index)

\* the element sizes a Buffer is constructed with in SpecCtor: small ones and
\* the ones at which VkDeviceSize arithmetic wraps
CtorSizes == {1, 3, DeviceSizeMod \div 2, DeviceSizeMod - 1}

\* the alignments of SpecCtor: none, powers of two, and one that is not
CtorAlignments == {0, 1, 2, 3, 4}

\* Buffer::Buffer with its call of getAlignment on record
InitCtor ==
    \E instanceSize \in CtorSizes,
       instanceCount \in 1 .. MaxInstanceCount,
       minOffsetAlignment \in CtorAlignments :
        /\ Buffer(instanceSize, instanceCount, {HOST_VISIBLE, HOST_COHERENT},
                  minOffsetAlignment)
        /\ argInstanceSize = instanceSize
        /\ argMinOffsetAlignment = minOffsetAlignment
        /\ alignResult = getAlignment(instanceSize, minOffsetAlignment)
        /\ alignPc = "returned"

\* one Buffer of any size, mapped as a whole, and its index helpers
NextCtor ==
    \/ map(VK_WHOLE_SIZE, 0)
    \/ \E v \in Byte, index \in Indices : writeToIndexCall(v, index)
    \/ \E index \in Indices : flushIndex(index)
    \/ \E index \in Indices : invalidateIndex(index)
    \/ \E index \in Indices : descriptorInfoForIndexCall(index)

\* the life of one Buffer on either kind of memory: map, unmap, write, destroy
NextLife ==
    \/ \E offset \in MapOffsets : \E size \in MapSizes(offset) : map(size, offset)
    \/ unmap
    \/ \E v \in Byte, offset \in WriteOffsets, size \in {VK_WHOLE_SIZE, m_instanceSize} :
          writeToBufferCall(v, size, offset)
    \/ BufferDestructor

NextBuffer ==
    \/ \E offset \in MapOffsets : \E size \in MapSizes(offset) : map(size, offset)
    \/ unmap
    \/ \E v \in Byte, offset \in WriteOffsets, size \in {VK_WHOLE_SIZE, m_instanceSize} :
          writeToBufferCall(v, size, offset)
    \/ \E v \in Byte, index \in Indices : writeToIndexCall(v, index)

----------------------------------------------------------------------------
(* Descriptor set layouts, the descriptor pool and the device's side of it *)

\* sets a pool is created for
MaxPoolSets == 2

\* descriptors of one type a pool is created for
MaxPoolDescriptors == 3

UNIFORM_BUFFER == "VK_DESCRIPTOR_TYPE_UNIFORM_BUFFER"

COMBINED_IMAGE_SAMPLER == "VK_DESCRIPTOR_TYPE_COMBINED_IMAGE_SAMPLER"

DescriptorTypes == {UNIFORM_BUFFER, COMBINED_IMAGE_SAMPLER}

VK_NULL_HANDLE == 0

FREE_DESCRIPTOR_SET_BIT == "VK_DESCRIPTOR_POOL_CREATE_FREE_DESCRIPTOR_SET_BIT"

\* DescriptorSetLayout::Builder::addBinding: one record of m_bindings
Binding(descriptorType, count) ==
    [descriptorType |-> descriptorType, descriptorCount |-> count]

\* The layouts built with DescriptorSetLayout::Builder: m_bindings of each.
\*   "ubo"     .addBinding(0, UNIFORM_BUFFER)
\*   "ubo_tex" .addBinding(0, UNIFORM_BUFFER).addBinding(1, COMBINED_IMAGE_SAMPLER)
\*   "global"  .addBinding(0, UNIFORM_BUFFER).addBinding(1, COMBINED_IMAGE_SAMPLER, 2)
\*   "ubo_pair" .addBinding(0, UNIFORM_BUFFER).addBinding(1, UNIFORM_BUFFER)
Layouts == {"ubo", "ubo_tex", "global", "ubo_pair"}

m_bindings(layout) ==
    CASE layout = "ubo"     -> (0 :> Binding(UNIFORM_BUFFER, 1))
      [] layout = "ubo_tex" -> (0 :> Binding(UNIFORM_BUFFER, 1)
                                @@ 1 :> Binding(COMBINED_IMAGE_SAMPLER, 1))
      [] layout = "global"  -> (0 :> Binding(UNIFORM_BUFFER, 1)
                                @@ 1 :> Binding(COMBINED_IMAGE_SAMPLER, 2))
      [] layout = "ubo_pair" -> (0 :> Binding(UNIFORM_BUFFER, 1)
                                 @@ 1 :> Binding(UNIFORM_BUFFER, 1))

RECURSIVE SumCounts(_, _)
SumCounts(K, b) ==
    IF K = {} THEN 0
    ELSE LET k == CHOOSE x \in K : TRUE
         IN b[k].descriptorCount + SumCounts(K \ {k}, b)

\* descriptors of type t one set of the layout takes from a pool
LayoutDemand(layout, t) ==
    LET b == m_bindings(layout)
    IN SumCounts({k \in DOMAIN b : b[k].descriptorType = t}, b)

\* descriptors of type t the sets `sets` hold
RECURSIVE UsedBy(_, _)
UsedBy(sets, t) ==
    IF DOMAIN sets = {} THEN 0
    ELSE LET h == CHOOSE x \in DOMAIN sets : TRUE
         IN LayoutDemand(sets[h], t)
            + UsedBy([x \in DOMAIN sets \ {h} |-> sets[x]], t)

ParkedPool ==
    /\ m_maxSets = 0
    /\ m_poolSizes = [t \in DescriptorTypes |-> 0]
    /\ m_poolFlags = {}
    /\ poolSets = <<>>
    /\ poolFragmented = FALSE
    /\ descriptors = <<>>
    /\ invalidUpdate = FALSE
    /\ poolPc = "off"
    /\ poolCall = [op |-> "none"]

ParkedWriter ==
    /\ m_setLayout = "none"
    /\ m_writes = <<>>

\* DescriptorPool::DescriptorPool with vkCreateDescriptorPool succeeding
DescriptorPool(maxSets, poolFlags, poolSizes) ==
    /\ m_maxSets = maxSets
    /\ m_poolSizes = poolSizes
    /\ m_poolFlags = poolFlags
    /\ poolSets = <<>>
    /\ poolFragmented = FALSE
    /\ descriptors = <<>>
    /\ invalidUpdate = FALSE
    /\ poolPc = "alive"
    /\ poolCall = [op |-> "DescriptorPool"]

InitPool ==
    \E maxSets \in 1 .. MaxPoolSets,
       poolFlags \in {{}, {FREE_DESCRIPTOR_SET_BIT}},
       poolSizes \in [DescriptorTypes -> 0 .. MaxPoolDescriptors] :
        DescriptorPool(maxSets, poolFlags, poolSizes)

\* the device's check of an allocation against the pool's declared sizes
PoolHasRoom(layout) ==
    /\ Cardinality(DOMAIN poolSets) + 1 <= m_maxSets
    /\ \A t \in DescriptorTypes :
          UsedBy(poolSets, t) + LayoutDemand(layout, t) <= m_poolSizes[t]

\* the handle the device gives a new set
NewHandle ==
    CHOOSE h \in 1 .. (m_maxSets + 1) :
        /\ h \notin DOMAIN poolSets
        /\ \A g \in 1 .. (h - 1) : g \in DOMAIN poolSets

\* vkAllocateDescriptorSets for one set: the results the device can give. On
\* failure the handle written is VK_NULL_HANDLE. A pool whose sets were freed
\* one by one may be fragmented.
VkAllocateDescriptorSets(layout) ==
    IF ~PoolHasRoom(layout)
    THEN {[result |-> "VK_ERROR_OUT_OF_POOL_MEMORY", set |-> VK_NULL_HANDLE]}
    ELSE {[result |-> "VK_SUCCESS", set |-> NewHandle]}
         \cup (IF poolFragmented
               THEN {[result |-> "VK_ERROR_FRAGMENTED_POOL", set |-> VK_NULL_HANDLE]}
               ELSE {})

\* the device's sets after vkAllocateDescriptorSets gave `out`
SetsAfter(out, layout) ==
    IF out.result = "VK_SUCCESS" THEN poolSets @@ (out.set :> layout) ELSE poolSets

\* ... and their contents: the bindings of a new set are not written yet
DescriptorsAfter(out, layout) ==
    IF out.result = "VK_SUCCESS"
    THEN descriptors @@ (out.set :> [b \in DOMAIN m_bindings(layout) |-> "unwritten"])
    ELSE descriptors

\* mutant: the VkResult is not looked at
allocateDescriptorSet_IgnoresResult(layout) ==
    { [success |-> TRUE, descriptor |-> out.set,
       poolSets |-> SetsAfter(out, layout),
       descriptors |-> DescriptorsAfter(out, layout)] :
      out \in VkAllocateDescriptorSets(layout) }

\* DescriptorPool::allocateDescriptorSet: the ways the call can end. `success`
\* is the value returned, `descriptor` the handle written to the out
\* parameter; poolSets and descriptors are the device's state afterwards.
allocateDescriptorSet(layout) ==
    { [success |-> (out.result = "VK_SUCCESS"), descriptor |-> out.set,
       poolSets |-> SetsAfter(out, layout),
       descriptors |-> DescriptorsAfter(out, layout)] :
      out \in VkAllocateDescriptorSets(layout) }

allocateDescriptorSetCall(layout) ==
    /\ poolPc = "alive"
    /\ \E r \in allocateDescriptorSet(layout) :
          /\ poolSets' = r.poolSets
          /\ descriptors' = r.descriptors
          /\ poolCall' = [op |-> "allocateDescriptorSet", layout |-> layout,
                          success |-> r.success, descriptor |-> r.descriptor,
                          raised |-> FALSE,
                          setsBefore |-> poolSets,
                          fragmentedBefore |-> poolFragmented]
    /\ UNCHANGED <<m_maxSets, m_poolSizes, m_poolFlags, poolFragmented, invalidUpdate,
                   poolPc, m_setLayout, m_writes>>
    /\ UNCHANGED notPool

Without(sets, gone) ==
    [h \in DOMAIN sets \ gone |-> sets[h]]

\* DescriptorPool::freeDescriptors: vkFreeDescriptorSets is called whatever the
\* pool's flags are. On a pool created without the free bit the call is invalid
\* usage: the driver either ignores it or releases the sets.
freeDescriptors(sets) ==
    \/ /\ poolSets' = Without(poolSets, sets)
       /\ descriptors' = Without(descriptors, sets)
       /\ poolFragmented' = (poolFragmented \/ DOMAIN poolSets \ sets # {})
    \/ /\ FREE_DESCRIPTOR_SET_BIT \notin m_poolFlags
       /\ UNCHANGED <<poolSets, descriptors, poolFragmented>>

freeDescriptorsCall(sets) ==
    /\ poolPc = "alive"
    /\ freeDescriptors(sets)
    /\ poolCall' = [op |-> "freeDescriptors", sets |-> sets,
                    vkFreeDescriptorSets |-> TRUE, setsBefore |-> poolSets]
    /\ UNCHANGED <<m_maxSets, m_poolSizes, m_poolFlags, invalidUpdate, poolPc,
                   m_setLayout, m_writes>>
    /\ UNCHANGED notPool

\* mutant: the pool is not reset
resetPool_Nothing ==
    UNCHANGED <<poolSets, descriptors, poolFragmented>>

\* DescriptorPool::resetPool: vkResetDescriptorPool returns every set
resetPool ==
    /\ poolSets' = <<>>
    /\ descriptors' = <<>>
    /\ poolFragmented' = FALSE

resetPoolCall ==
    /\ poolPc = "alive"
    /\ resetPool
    /\ poolCall' = [op |-> "resetPool", setsBefore |-> poolSets]
    /\ UNCHANGED <<m_maxSets, m_poolSizes, m_poolFlags, invalidUpdate, poolPc,
                   m_setLayout, m_writes>>
    /\ UNCHANGED notPool

NextPool ==
    \/ \E layout \in Layouts : allocateDescriptorSetCall(layout)
    \/ \E sets \in SUBSET (DOMAIN poolSets) \ {{}} : freeDescriptorsCall(sets)
    \/ resetPoolCall

----------------------------------------------------------------------------
(* DescriptorSetLayout::Builder and the binding map of the layout it builds *)

SAMPLER == "VK_DESCRIPTOR_TYPE_SAMPLER"

\* a value-initialised VkDescriptorSetLayoutBinding: descriptor type 0
\* (VK_DESCRIPTOR_TYPE_SAMPLER) and descriptorCount 0
DefaultBinding == Binding(SAMPLER, 0)

\* binding indices, types and counts addBinding is called with
BuilderIndices == {0, 1, 2}

BuilderCounts == {1, 2}

ParkedLayout ==
    /\ NDEBUG = FALSE
    /\ builderBindings = <<>>
    /\ layoutBindings = <<>>
    /\ layoutPc = "off"

\* a new Builder, in a build with or without assertions
InitLayout ==
    /\ NDEBUG \in BOOLEAN
    /\ builderBindings = <<>>
    /\ layoutBindings = <<>>
    /\ layoutPc = "building"

\* the Builder and the layout after Builder::build() has returned `layout`,
\* in a build with assertions (ndebug = FALSE) or without
LayoutBuilt(layout, ndebug) ==
    /\ NDEBUG = ndebug
    /\ builderBindings = m_bindings(layout)
    /\ layoutBindings = m_bindings(layout)
    /\ layoutPc = "built"

\* m_bindings[binding] = layoutBinding
Assigned(bindings, binding, layoutBinding) ==
    [k \in DOMAIN bindings \cup {binding} |->
        IF k = binding THEN layoutBinding ELSE bindings[k]]

\* mutant: the index is not looked up before the assignment
addBinding_NoAssert(binding, descriptorType, count) ==
    [aborted |-> FALSE,
     m_bindings |-> Assigned(builderBindings, binding, Binding(descriptorType, count))]

\* DescriptorSetLayout::Builder::addBinding: whether the assertion ended the
\* process, and the builder's map afterwards
addBinding(binding, descriptorType, count) ==
    IF ~NDEBUG /\ binding \in DOMAIN builderBindings
    THEN [aborted |-> TRUE, m_bindings |-> builderBindings]
    ELSE [aborted |-> FALSE,
          m_bindings |-> Assigned(builderBindings, binding,
                                  Binding(descriptorType, count))]

addBindingCall(binding, descriptorType, count) ==
    /\ layoutPc \in {"building", "built"}
    /\ poolPc # "aborted"
    /\ LET r == addBinding(binding, descriptorType, count)
       IN /\ builderBindings' = r.m_bindings
          /\ layoutPc' = IF r.aborted THEN "aborted" ELSE layoutPc
          /\ poolPc' = IF r.aborted /\ poolPc = "alive" THEN "aborted" ELSE poolPc
    /\ UNCHANGED <<NDEBUG, layoutBindings>>
    /\ UNCHANGED <<m_maxSets, m_poolSizes, m_poolFlags, poolSets, poolFragmented,
                   descriptors, invalidUpdate, poolCall, m_setLayout, m_writes>>
    /\ UNCHANGED notWriter

\* DescriptorSetLayout::Builder::build: the new layout takes a copy of the
\* builder's map
BuilderBuild ==
    /\ layoutPc \in {"building", "built"}
    /\ layoutBindings' = builderBindings
    /\ layoutPc' = "built"
    /\ UNCHANGED <<NDEBUG, builderBindings>>
    /\ UNCHANGED poolVars
    /\ UNCHANGED notWriter

NextLayout ==
    \/ \E binding \in BuilderIndices, descriptorType \in DescriptorTypes,
          count \in BuilderCounts :
          addBindingCall(binding, descriptorType, count)
    \/ BuilderBuild

----------------------------------------------------------------------------
(* DescriptorWriter *)

\* pending writes one writer is given
MaxWrites == 2

\* binding indices callers write: those of the layouts and one no layout has
WrittenBindings == {0, 1, 2}

BufferInfos == {"bufferInfoA"}

ImageInfos == {"imageInfoA"}

\* the layouts writers are constructed with
WriterLayouts == {"ubo_tex", "global"}

\* DescriptorWriter::DescriptorWriter
DescriptorWriter(setLayout) ==
    /\ m_setLayout = setLayout
    /\ m_writes = <<>>

\* a writer in a build with assertions
InitWriter ==
    \E setLayout \in WriterLayouts :
        DescriptorWriter(setLayout) /\ LayoutBuilt(setLayout, FALSE)

\* a writer in either build
InitWriterAnyBuild ==
    \E setLayout \in WriterLayouts, ndebug \in BOOLEAN :
        DescriptorWriter(setLayout) /\ LayoutBuilt(setLayout, ndebug)

\* a new writer on the same layout and pool takes the place of the old one
DescriptorWriterCall ==
    /\ poolPc = "alive"
    /\ m_writes' = <<>>
    /\ poolCall' = [op |-> "DescriptorWriter"]
    /\ UNCHANGED <<m_maxSets, m_poolSizes, m_poolFlags, poolSets, poolFragmented,
                   descriptors, invalidUpdate, poolPc, m_setLayout>>
    /\ UNCHANGED notPool

\* m_setLayout.m_bindings after operator[](binding): an index that is not in
\* the map is inserted with a value-initialised binding
Subscripted(binding) ==
    IF binding \in DOMAIN layoutBindings
    THEN layoutBindings
    ELSE layoutBindings @@ (binding :> DefaultBinding)

\* the VkWriteDescriptorSet a write call fills in; dstSet stays zero
WriteRecord(binding, kind, info) ==
    [descriptorType |-> Subscripted(binding)[binding].descriptorType,
     dstBinding |-> binding,
     kind |-> kind,
     info |-> info,
     descriptorCount |-> 1,
     dstSet |-> VK_NULL_HANDLE]

\* mutant: only the first assertion
WriteAccepted_AnyCount(binding) ==
    binding \in DOMAIN layoutBindings

\* the two assertions of writeBuffer and writeImage
WriteAccepted(binding) ==
    /\ binding \in DOMAIN layoutBindings
    /\ layoutBindings[binding].descriptorCount = 1

\* DescriptorWriter::writeBuffer / writeImage. With assertions compiled in, a
\* failed assertion ends the process before the map is subscripted; with
\* NDEBUG the map is subscripted and the write is recorded whatever the
\* binding is.
write(binding, kind, info) ==
    /\ poolPc = "alive"
    /\ Len(m_writes) < MaxWrites
    /\ IF NDEBUG \/ WriteAccepted(binding)
       THEN /\ layoutBindings' = Subscripted(binding)
            /\ m_writes' = Append(m_writes, WriteRecord(binding, kind, info))
            /\ UNCHANGED poolPc
       ELSE /\ poolPc' = "aborted"
            /\ UNCHANGED <<m_writes, layoutBindings>>
    /\ UNCHANGED <<m_maxSets, m_poolSizes, m_poolFlags, poolSets, poolFragmented,
                   descriptors, invalidUpdate, m_setLayout>>
    /\ UNCHANGED <<NDEBUG, builderBindings, layoutPc>>
    /\ UNCHANGED notWriter

writeBuffer(binding, bufferInfo) ==
    /\ write(binding, "buffer", bufferInfo)
    /\ poolCall' = [op |-> "writeBuffer"]

writeImage(binding, imageInfo) ==
    /\ write(binding, "image", imageInfo)
    /\ poolCall' = [op |-> "writeImage"]

\* the info member a descriptor type is read from
KindOf(descriptorType) ==
    IF descriptorType = UNIFORM_BUFFER THEN "buffer" ELSE "image"

\* vkUpdateDescriptorSets accepts a write whose set is live and whose binding,
\* type and info agree with the set's layout
WriteValid(w, sets) ==
    /\ w.dstSet \in DOMAIN sets
    /\ w.dstBinding \in DOMAIN m_bindings(sets[w.dstSet])
    /\ m_bindings(sets[w.dstSet])[w.dstBinding].descriptorType = w.descriptorType
    /\ KindOf(w.descriptorType) = w.kind

\* vkUpdateDescriptorSets: the contents of the sets after the writes, in order
RECURSIVE VkUpdateDescriptorSets(_, _, _)
VkUpdateDescriptorSets(writes, sets, descs) ==
    IF writes = <<>> THEN descs
    ELSE LET w == Head(writes)
             next == IF WriteValid(w, sets)
                     THEN [descs EXCEPT ![w.dstSet][w.dstBinding] = w.info]
                     ELSE descs
         IN VkUpdateDescriptorSets(Tail(writes), sets, next)

\* mutant: the writes are stamped but not submitted
overwrite_NoUpdate(set, sets, descs) ==
    [m_writes |-> [i \in 1 .. Len(m_writes) |-> [m_writes[i] EXCEPT !.dstSet = set]],
     descriptors |-> descs,
     invalid |-> FALSE,
     submitted |-> 0]

\* DescriptorWriter::overwrite on the device state (sets, descs): the pending
\* writes stamped with the set, the contents after vkUpdateDescriptorSets, and
\* whether a write went against a set that is not live or does not fit it
overwrite(set, sets, descs) ==
    LET stamped == [i \in 1 .. Len(m_writes) |-> [m_writes[i] EXCEPT !.dstSet = set]]
    IN [m_writes |-> stamped,
        descriptors |-> VkUpdateDescriptorSets(stamped, sets, descs),
        invalid |-> \E i \in 1 .. Len(stamped) : ~WriteValid(stamped[i], sets),
        submitted |-> Len(stamped)]

overwriteCall(set) ==
    /\ poolPc = "alive"
    /\ LET o == overwrite(set, poolSets, descriptors)
       IN /\ m_writes' = o.m_writes
          /\ descriptors' = o.descriptors
          /\ invalidUpdate' = (invalidUpdate \/ o.invalid)
          /\ poolCall' = [op |-> "overwrite", set |-> set, submitted |-> o.submitted]
    /\ UNCHANGED <<m_maxSets, m_poolSizes, m_poolFlags, poolSets, poolFragmented,
                   poolPc, m_setLayout>>
    /\ UNCHANGED notPool

\* DescriptorWriter::build of descriptors.cpp: returns false when the pool
\* gives no set, and updates nothing then
build ==
    /\ poolPc = "alive"
    /\ \E r \in allocateDescriptorSet(m_setLayout) :
          IF ~r.success
          THEN /\ poolSets' = r.poolSets
               /\ descriptors' = r.descriptors
               /\ UNCHANGED <<m_writes, invalidUpdate>>
               /\ poolCall' = [op |-> "build", source |-> "descriptors.cpp",
                               allocated |-> FALSE, returned |-> "false",
                               set |-> r.descriptor, submitted |-> 0]
          ELSE LET o == overwrite(r.descriptor, r.poolSets, r.descriptors)
               IN /\ poolSets' = r.poolSets
                  /\ descriptors' = o.descriptors
                  /\ m_writes' = o.m_writes
                  /\ invalidUpdate' = (invalidUpdate \/ o.invalid)
                  /\ poolCall' = [op |-> "build", source |-> "descriptors.cpp",
                                  allocated |-> TRUE, returned |-> "true",
                                  set |-> r.descriptor, submitted |-> o.submitted]
    /\ UNCHANGED <<m_maxSets, m_poolSizes, m_poolFlags, poolFragmented, poolPc,
                   m_setLayout>>
    /\ UNCHANGED notPool

\* DescriptorWriter::build of descriptors/descriptor_writer.cpp: returns
\* nothing and calls overwrite whatever allocateDescriptorSet returned
buildVoid ==
    /\ poolPc = "alive"
    /\ \E r \in allocateDescriptorSet(m_setLayout) :
          LET o == overwrite(r.descriptor, r.poolSets, r.descriptors)
          IN /\ poolSets' = r.poolSets
             /\ descriptors' = o.descriptors
             /\ m_writes' = o.m_writes
             /\ invalidUpdate' = (invalidUpdate \/ o.invalid)
             /\ poolCall' = [op |-> "build", source |-> "descriptor_writer.cpp",
                             allocated |-> r.success, returned |-> "void",
                             set |-> r.descriptor, submitted |-> o.submitted]
    /\ UNCHANGED <<m_maxSets, m_poolSizes, m_poolFlags, poolFragmented, poolPc,
                   m_setLayout>>
    /\ UNCHANGED notPool

\* sets the pool of a writer is created for
MaxWriterPoolSets == 1

\* the pools a writer is given: maxSets is what runs out
InitWriterPool ==
    \E maxSets \in 1 .. MaxWriterPoolSets :
        DescriptorPool(maxSets, {}, [t \in DescriptorTypes |-> 2 * MaxWriterPoolSets])

\* indices addBinding is called with on the builder after it has built the
\* writer's layout
LaterIndices == {1, 2}

NextWriter ==
    \/ DescriptorWriterCall
    \/ \E binding \in WrittenBindings, bufferInfo \in BufferInfos :
          writeBuffer(binding, bufferInfo)
    \/ \E binding \in WrittenBindings, imageInfo \in ImageInfos :
          writeImage(binding, imageInfo)
    \/ build
    \/ buildVoid
    \/ \E set \in DOMAIN poolSets : overwriteCall(set)
    \/ resetPoolCall

\* the builder and the writer working on the layout the builder has built
NextLayoutUse ==
    \/ \E binding \in LaterIndices, descriptorType \in DescriptorTypes :
          addBindingCall(binding, descriptorType, 1)
    \/ \E binding \in WrittenBindings, bufferInfo \in BufferInfos :
          writeBuffer(binding, bufferInfo)
    \/ \E binding \in WrittenBindings, imageInfo \in ImageInfos :
          writeImage(binding, imageInfo)
    \/ build
    \/ \E set \in DOMAIN poolSets : overwriteCall(set)

----------------------------------------------------------------------------
(* DescriptorAllocatorGrowable and the frame loop that drives it.            *)
(* Application constructs the allocator with MAX_FRAMES_IN_FLIGHT and the    *)
(* pool size ratios and calls allocate; the class body is not among the      *)
(* sources, so its behaviour follows the design document: per frame slot a   *)
(* ready pool, a full list and a free list; allocate retries once on a       *)
(* replacement pool; beginFrame recycles the slot's full pools.              *)

MAX_FRAMES_IN_FLIGHT == 2

\* capacity (sets) of the first pool of a slot
InitialSetsPerPool == 1

GrowthFactor == 2

\* the maximum a pool's capacity is clamped to
MaxSetsPerPool == 2

\* allocate calls recorded in one frame
MaxAllocsPerFrame == 2

\* frames the loop of Application::run is followed for
MaxFrames == 4

Slots == 0 .. (MAX_FRAMES_IN_FLIGHT - 1)

\* std::vector<PoolSizeRatio> ratios of Application::Application
Ratio(t) ==
    IF t = UNIFORM_BUFFER THEN 1 ELSE 5

\* the layouts sets are allocated with through the allocator
GrowLayouts == {"ubo", "ubo_pair"}

NoDescriptors == [t \in DescriptorTypes |-> 0]

\* a pool of the allocator: maxSets = capacity, and ratio * capacity
\* descriptors of each type
NewPool(id, capacity) ==
    [id |-> id, capacity |-> capacity, sets |-> 0, used |-> NoDescriptors]

\* DescriptorPool::allocateDescriptorSet on a pool of the allocator succeeds
GrowPoolHasRoom(pool, layout) ==
    /\ pool.sets + 1 <= pool.capacity
    /\ \A t \in DescriptorTypes :
          pool.used[t] + LayoutDemand(layout, t) <= Ratio(t) * pool.capacity

GrowPoolAllocate(pool, layout) ==
    [pool EXCEPT !.sets = @ + 1,
                 !.used = [t \in DescriptorTypes |-> @[t] + LayoutDemand(layout, t)]]

\* DescriptorPool::resetPool on a pool of the allocator
GrowPoolReset(pool) ==
    [pool EXCEPT !.sets = 0, !.used = NoDescriptors]

Min(a, b) ==
    IF a <= b THEN a ELSE b

\* mutant: the replacement pool does not grow
NewCapacity_NoGrowth(previousCapacity) ==
    previousCapacity

\* capacity of a pool created to replace one of previousCapacity
NewCapacity(previousCapacity) ==
    Min(previousCapacity * GrowthFactor, MaxSetsPerPool)

AllPools ==
    UNION { {readyPool[f]} \cup fullPools[f] \cup freePools[f] : f \in Slots }

AllPoolIds == { p.id : p \in AllPools }

NewPoolId ==
    Cardinality(AllPoolIds) + 1

ParkedGrow ==
    /\ readyPool = <<>>
    /\ fullPools = <<>>
    /\ freePools = <<>>
    /\ gpuBusy = <<>>
    /\ frameIndex = 0
    /\ allocsThisFrame = 0
    /\ frameCount = 0
    /\ growPc = "off"
    /\ growCall = [op |-> "none"]

\* DescriptorAllocatorGrowable(context, MAX_FRAMES_IN_FLIGHT, ratios)
InitGrow ==
    /\ readyPool = [f \in Slots |-> NewPool(f + 1, InitialSetsPerPool)]
    /\ fullPools = [f \in Slots |-> {}]
    /\ freePools = [f \in Slots |-> {}]
    /\ gpuBusy = [f \in Slots |-> FALSE]
    /\ frameIndex = 0
    /\ allocsThisFrame = 0
    /\ frameCount = 0
    /\ growPc = "between"
    /\ growCall = [op |-> "DescriptorAllocatorGrowable"]

\* mutant: the frame does not wait for the slot's previous GPU work
FenceSignaled_NoWait(f) ==
    TRUE

\* the frame-in-flight fence of slot f is signaled: the GPU work submitted in
\* the slot's previous use has completed
FenceSignaled(f) ==
    ~gpuBusy[f]

\* beginFrame(f): after the caller has waited for slot f's fence, every pool of
\* slot f on the full list is reset and put on the free list
beginFrame ==
    /\ growPc = "between"
    /\ frameCount < MaxFrames
    /\ FenceSignaled(frameIndex)
    /\ frameCount' = frameCount + 1
    /\ fullPools' = [fullPools EXCEPT ![frameIndex] = {}]
    /\ freePools' = [freePools EXCEPT ![frameIndex] =
                        @ \cup { GrowPoolReset(p) : p \in fullPools[frameIndex] }]
    /\ allocsThisFrame' = 0
    /\ growPc' = "recording"
    /\ growCall' = [op |-> "beginFrame", slot |-> frameIndex,
                    recycled |-> { p.id : p \in fullPools[frameIndex] },
                    busyBefore |-> gpuBusy[frameIndex]]
    /\ UNCHANGED <<readyPool, gpuBusy, frameIndex>>
    /\ UNCHANGED notGrow

\* mutant: the exhausted pool stays the ready pool and is tried again
allocateOutcome_NoReplacement(layout, replacement, pulled) ==
    LET f == frameIndex
        exhausted == readyPool[f]
    IN /\ readyPool' = readyPool
       /\ UNCHANGED <<fullPools, freePools>>
       /\ growPc' = "recording"
       /\ growCall' = [op |-> "allocate", slot |-> f, layout |-> layout,
                       attempts |-> 2, pulled |-> pulled,
                       exhaustedCapacity |-> exhausted.capacity,
                       replacementCapacity |-> exhausted.capacity,
                       result |-> "ok"]

\* allocate after the ready pool has rejected the layout: the ready pool goes
\* to the full list, `replacement` (pulled from the free list, or new) becomes
\* the ready pool, and the allocation is tried once more; if that fails too the
\* call is fatal
allocateOutcome(layout, replacement, pulled) ==
    LET f == frameIndex
        exhausted == readyPool[f]
        retry == GrowPoolHasRoom(replacement, layout)
    IN /\ fullPools' = [fullPools EXCEPT ![f] = @ \cup {exhausted}]
       /\ freePools' = [freePools EXCEPT ![f] = @ \ {replacement}]
       /\ readyPool' = [readyPool EXCEPT ![f] =
                           IF retry THEN GrowPoolAllocate(replacement, layout)
                           ELSE replacement]
       /\ growPc' = IF retry THEN "recording" ELSE "fatal"
       /\ growCall' = [op |-> "allocate", slot |-> f, layout |-> layout,
                       attempts |-> 2, pulled |-> pulled,
                       exhaustedCapacity |-> exhausted.capacity,
                       replacementCapacity |-> replacement.capacity,
                       result |-> IF retry THEN "ok" ELSE "fatal"]

\* allocate(layout), called while a frame is recorded
allocate(layout) ==
    /\ growPc = "recording"
    /\ allocsThisFrame < MaxAllocsPerFrame
    /\ allocsThisFrame' = allocsThisFrame + 1
    /\ LET f == frameIndex
       IN IF GrowPoolHasRoom(readyPool[f], layout)
          THEN /\ readyPool' = [readyPool EXCEPT ![f] = GrowPoolAllocate(@, layout)]
               /\ growCall' = [op |-> "allocate", slot |-> f, layout |-> layout,
                               attempts |-> 1, result |-> "ok"]
               /\ UNCHANGED <<fullPools, freePools, growPc>>
          ELSE IF freePools[f] # {}
               THEN \E p \in freePools[f] : allocateOutcome(layout, p, TRUE)
               ELSE allocateOutcome(layout,
                                    NewPool(NewPoolId,
                                            NewCapacity(readyPool[f].capacity)),
                                    FALSE)
    /\ UNCHANGED <<gpuBusy, frameIndex, frameCount>>
    /\ UNCHANGED notGrow

\* endFrame: the frame's work is submitted and the next slot is taken
endFrame ==
    /\ growPc = "recording"
    /\ gpuBusy' = [gpuBusy EXCEPT ![frameIndex] = TRUE]
    /\ frameIndex' = (frameIndex + 1) % MAX_FRAMES_IN_FLIGHT
    /\ growPc' = "between"
    /\ growCall' = [op |-> "endFrame", slot |-> frameIndex]
    /\ UNCHANGED <<readyPool, fullPools, freePools, allocsThisFrame, frameCount>>
    /\ UNCHANGED notGrow

\* the GPU finishes the work submitted in slot f
gpuComplete(f) ==
    /\ gpuBusy[f]
    /\ growPc # "fatal"
    /\ gpuBusy' = [gpuBusy EXCEPT ![f] = FALSE]
    /\ UNCHANGED <<readyPool, fullPools, freePools, frameIndex, allocsThisFrame,
                   frameCount, growPc, growCall>>
    /\ UNCHANGED notGrow

NextGrow ==
    \/ beginFrame
    \/ \E layout \in GrowLayouts : allocate(layout)
    \/ endFrame
    \/ \E f \in Slots : gpuComplete(f)

----------------------------------------------------------------------------
(* Model: the constructor uploads the builder's vertices and indices to      *)
(* device-local buffers through a staging buffer. Each of the two functions  *)
(* runs to its end without interleaving; the calls it makes are appended to  *)
(* modelLog in program order.                                                *)

\* sizeof(Model::Vertex): position, color, normal (three floats each) and uv
\* (two floats)
sizeofVertex == 44

\* sizeof(uint32_t)
sizeofIndex == 4

\* the most vertices and indices a builder holds
MaxVertexCount == 4

MaxIndexCount == 2

\* Buffer's default minOffsetAlignment
DefaultMinOffsetAlignment == 1

NoBuffer == [handle |-> VK_NULL_HANDLE]

ParkedModel ==
    /\ argVertices = <<>>
    /\ argIndices = <<>>
    /\ m_vertexCount = 0
    /\ m_indexCount = 0
    /\ m_hasIndexBuffer = FALSE
    /\ m_vertexBuffer = NoBuffer
    /\ m_indexBuffer = NoBuffer
    /\ buffersCreated = 0
    /\ modelLog = <<>>
    /\ modelPc = "off"

\* Model::Model is entered with a builder's lists; a build with or without
\* assertions
InitModel ==
    /\ \E vertexCount \in 1 .. MaxVertexCount, v \in Byte :
          argVertices = Data(v, sizeofVertex * vertexCount)
    /\ \E indexCount \in 0 .. MaxIndexCount, v \in Byte :
          argIndices = Data(v, sizeofIndex * indexCount)
    /\ m_vertexCount = 0
    /\ m_indexCount = 0
    /\ m_hasIndexBuffer = FALSE
    /\ m_vertexBuffer = NoBuffer
    /\ m_indexBuffer = NoBuffer
    /\ buffersCreated = 0
    /\ modelLog = <<>>
    /\ modelPc = "constructing"
    /\ NDEBUG \in BOOLEAN
    /\ builderBindings = <<>>
    /\ layoutBindings = <<>>
    /\ layoutPc = "off"

\* the size a Buffer is created with (buffer.cpp, constructor)
BufferSizeOf(instanceSize, instanceCount) ==
    Wrap(getAlignment(instanceSize, DefaultMinOffsetAlignment) * instanceCount)

\* Context::copyBuffer: the first `size` bytes of the source land in the
\* destination
copyBuffer(srcMemory, dstSize, size) ==
    [k \in 0 .. (dstSize - 1) |-> IF k < size THEN srcMemory[k] ELSE 0]

\* the memory of the staging buffer after map() and writeToBuffer(data)
StagingMemory(instanceSize, instanceCount, data) ==
    LET size == BufferSizeOf(instanceSize, instanceCount)
    IN Memcpy([k \in 0 .. (size - 1) |-> 0], 0, data, size)

\* mutant: the staging buffer is destroyed before the copy is issued
Upload_DestroyFirst(staging, dst, instanceSize, instanceCount, bufferSize, data) ==
    << [op |-> "Buffer", buffer |-> staging,
        size |-> BufferSizeOf(instanceSize, instanceCount),
        memoryPropertyFlags |-> {HOST_VISIBLE, HOST_COHERENT}],
       [op |-> "map", buffer |-> staging, size |-> VK_WHOLE_SIZE, offset |-> 0],
       [op |-> "writeToBuffer", buffer |-> staging, data |-> data,
        written |-> BufferSizeOf(instanceSize, instanceCount)],
       [op |-> "Buffer", buffer |-> dst,
        size |-> BufferSizeOf(instanceSize, instanceCount),
        memoryPropertyFlags |-> {DEVICE_LOCAL}],
       [op |-> "~Buffer", buffer |-> staging],
       [op |-> "copyBuffer", src |-> staging, dst |-> dst, size |-> bufferSize] >>

\* the calls of one upload in program order: staging buffer, map, write,
\* destination buffer, copy, and the staging buffer's destructor at the end of
\* the scope
Upload(staging, dst, instanceSize, instanceCount, bufferSize, data) ==
    << [op |-> "Buffer", buffer |-> staging,
        size |-> BufferSizeOf(instanceSize, instanceCount),
        memoryPropertyFlags |-> {HOST_VISIBLE, HOST_COHERENT}],
       [op |-> "map", buffer |-> staging, size |-> VK_WHOLE_SIZE, offset |-> 0],
       [op |-> "writeToBuffer", buffer |-> staging, data |-> data,
        written |-> BufferSizeOf(instanceSize, instanceCount)],
       [op |-> "Buffer", buffer |-> dst,
        size |-> BufferSizeOf(instanceSize, instanceCount),
        memoryPropertyFlags |-> {DEVICE_LOCAL}],
       [op |-> "copyBuffer", src |-> staging, dst |-> dst, size |-> bufferSize],
       [op |-> "~Buffer", buffer |-> staging] >>

\* the calls of an upload whose map() failed: the result of map is not looked
\* at, and writeToBuffer finds m_mapped null
UploadCutShort(staging, instanceSize, instanceCount) ==
    << [op |-> "Buffer", buffer |-> staging,
        size |-> BufferSizeOf(instanceSize, instanceCount),
        memoryPropertyFlags |-> {HOST_VISIBLE, HOST_COHERENT}],
       [op |-> "map", buffer |-> staging, size |-> VK_WHOLE_SIZE, offset |-> 0] >>

\* the device-local Buffer an upload leaves behind
Uploaded(dst, instanceSize, instanceCount, bufferSize, data) ==
    [handle |-> dst,
     size |-> BufferSizeOf(instanceSize, instanceCount),
     memoryPropertyFlags |-> {DEVICE_LOCAL},
     contents |-> copyBuffer(StagingMemory(instanceSize, instanceCount, data),
                             BufferSizeOf(instanceSize, instanceCount), bufferSize)]

\* Model::createVertexBuffers
createVertexBuffers ==
    LET vertexCount == Len(argVertices) \div sizeofVertex
        bufferSize == Wrap(sizeofVertex * vertexCount)
        staging == buffersCreated + 1
        dst == buffersCreated + 2
    IN /\ modelPc = "constructing"
       /\ m_vertexCount' = vertexCount
       /\ IF ~NDEBUG /\ vertexCount < 3
          THEN /\ modelPc' = "aborted"
               /\ UNCHANGED <<m_vertexBuffer, buffersCreated, modelLog>>
          ELSE \/ /\ modelLog' = modelLog \o Upload(staging, dst, sizeofVertex,
                                                   vertexCount, bufferSize, argVertices)
                  /\ m_vertexBuffer' = Uploaded(dst, sizeofVertex, vertexCount,
                                                bufferSize, argVertices)
                  /\ buffersCreated' = buffersCreated + 2
                  /\ modelPc' = "vertices"
               \/ /\ modelLog' = modelLog \o UploadCutShort(staging, sizeofVertex,
                                                           vertexCount)
                  /\ buffersCreated' = buffersCreated + 1
                  /\ modelPc' = IF NDEBUG THEN "crashed" ELSE "aborted"
                  /\ UNCHANGED m_vertexBuffer
       /\ UNCHANGED <<argVertices, argIndices, m_indexCount, m_hasIndexBuffer,
                      m_indexBuffer>>
       /\ UNCHANGED notModel

\* Model::createIndexBuffers
createIndexBuffers ==
    LET indexCount == Len(argIndices) \div sizeofIndex
        bufferSize == Wrap(sizeofIndex * indexCount)
        staging == buffersCreated + 1
        dst == buffersCreated + 2
    IN /\ modelPc = "vertices"
       /\ m_indexCount' = indexCount
       /\ m_hasIndexBuffer' = (indexCount > 0)
       /\ IF ~(indexCount > 0)
          THEN /\ modelPc' = "done"
               /\ UNCHANGED <<m_indexBuffer, buffersCreated, modelLog>>
          ELSE \/ /\ modelLog' = modelLog \o Upload(staging, dst, sizeofIndex,
                                                   indexCount, bufferSize, argIndices)
                  /\ m_indexBuffer' = Uploaded(dst, sizeofIndex, indexCount,
                                               bufferSize, argIndices)
                  /\ buffersCreated' = buffersCreated + 2
                  /\ modelPc' = "done"
               \/ /\ modelLog' = modelLog \o UploadCutShort(staging, sizeofIndex,
                                                           indexCount)
                  /\ buffersCreated' = buffersCreated + 1
                  /\ modelPc' = IF NDEBUG THEN "crashed" ELSE "aborted"
                  /\ UNCHANGED m_indexBuffer
       /\ UNCHANGED <<argVertices, argIndices, m_vertexCount, m_vertexBuffer>>
       /\ UNCHANGED notModel

\* Model::Model
NextModel ==
    \/ createVertexBuffers
    \/ createIndexBuffers

----------------------------------------------------------------------------
(* Event and EventDispatcher::Dispatch                                       *)

\* the most Dispatch calls made on one event
MaxDispatches == 4

\* some of Event::Type
EventTypes == {"WindowClose", "WindowResize", "KeyPress", "MouseMove"}

ParkedEvent ==
    /\ eventType = "none"
    /\ m_handled = FALSE
    /\ dispatches = 0
    /\ dispatchCall = [op |-> "none"]

\* a new event: m_handled = false
InitEvent ==
    /\ eventType \in EventTypes
    /\ m_handled = FALSE
    /\ dispatches = 0
    /\ dispatchCall = [op |-> "none"]

\* mutant: func is called on a matching event whether handled or not
Dispatch_NoHandledCheck(T, funcReturn) ==
    IF eventType = T
    THEN [returned |-> TRUE, invoked |-> TRUE, handled |-> funcReturn]
    ELSE [returned |-> FALSE, invoked |-> FALSE, handled |-> m_handled]

\* EventDispatcher::Dispatch<T>(func), for a func that returns funcReturn when
\* called: what Dispatch returns, whether func was invoked, and m_handled
\* afterwards
Dispatch(T, funcReturn) ==
    IF eventType = T
    THEN IF ~m_handled
         THEN [returned |-> TRUE, invoked |-> TRUE, handled |-> funcReturn]
         ELSE [returned |-> TRUE, invoked |-> FALSE, handled |-> m_handled]
    ELSE [returned |-> FALSE, invoked |-> FALSE, handled |-> m_handled]

\* a call of Dispatch<T>(func)
DispatchCall(T, funcReturn) ==
    /\ eventType # "none"
    /\ dispatches < MaxDispatches
    /\ dispatches' = dispatches + 1
    /\ m_handled' = Dispatch(T, funcReturn).handled
    /\ dispatchCall' = [op |-> "Dispatch", T |-> T, funcReturn |-> funcReturn,
                        invoked |-> Dispatch(T, funcReturn).invoked,
                        returned |-> Dispatch(T, funcReturn).returned]
    /\ UNCHANGED eventType
    /\ UNCHANGED notEvent

NextEvent ==
    \E T \in EventTypes, funcReturn \in BOOLEAN : DispatchCall(T, funcReturn)

----------------------------------------------------------------------------
(* Application::run and Application::onEvent. The window delivers its events *)
(* from inside glfwPollEvents, on the thread that runs the loop, by calling  *)
(* the callback run has registered. The renderer and the window are not      *)
(* among the sources: beginFrame returns a command buffer or none,           *)
(* getFrameIndex returns the renderer's slot, and the window may report      *)
(* shouldClose from any poll on.                                             *)

\* the most iterations of the loop followed
MaxIterations == 2

\* the most events one glfwPollEvents delivers
MaxPending == 1

\* the registered systems
MaxSystems == 3

\* Application::m_systems, in iteration order
m_systems == 1 .. MaxSystems

NoCommandBuffer == "nullptr"

ParkedApp ==
    /\ m_running = FALSE
    /\ shouldClose = FALSE
    /\ runPc = "off"
    /\ iterations = 0
    /\ pending = 0
    /\ closeDelivered = FALSE
    /\ evLog = [op |-> "none"]
    /\ currentFrameIndex = 0
    /\ frameLog = <<>>
    /\ uboBuffers = <<>>

\* run has created and mapped the uniform buffers, registered the callback and
\* reached the loop
InitApp ==
    /\ m_running = TRUE
    /\ shouldClose = FALSE
    /\ runPc = "loopTest"
    /\ iterations = 0
    /\ pending = 0
    /\ closeDelivered = FALSE
    /\ evLog = [op |-> "none"]
    /\ currentFrameIndex = 0
    /\ frameLog = <<>>
    /\ uboBuffers = [slot \in Slots |-> 0]
    /\ eventType = "none"
    /\ m_handled = FALSE
    /\ dispatches = 0
    /\ dispatchCall = [op |-> "none"]

appOnly ==
    <<alignVars, bufVars, poolVars, layoutVars, growVars, modelVars, loadVars, meshVars>>

\* mutant: only the window is asked
isRunning_WindowOnly ==
    ~shouldClose

\* Application::isRunning
isRunning ==
    ~shouldClose /\ m_running

\* while (isRunning()): enter the next iteration at glfwPollEvents, or leave
\* the loop for vkDeviceWaitIdle
loopTest ==
    /\ runPc = "loopTest"
    /\ IF isRunning
       THEN /\ iterations < MaxIterations
            /\ iterations' = iterations + 1
            /\ runPc' = "poll"
            /\ pending' \in 0 .. MaxPending
            /\ frameLog' = <<>>
       ELSE /\ runPc' = "waitIdle"
            /\ UNCHANGED <<iterations, pending, frameLog>>
    /\ UNCHANGED <<m_running, shouldClose, closeDelivered, evLog, currentFrameIndex,
                   uboBuffers>>
    /\ UNCHANGED <<eventVars, appOnly>>

\* inside glfwPollEvents: the window makes an event and calls the callback
\* with it; a close request may set the window's close flag
windowEvent(type) ==
    /\ runPc = "poll"
    /\ pending > 0
    /\ pending' = pending - 1
    /\ eventType' = type
    /\ m_handled' = FALSE
    /\ shouldClose' \in (IF type = "WindowClose" THEN {shouldClose, TRUE} ELSE {shouldClose})
    /\ runPc' = "callback"
    /\ UNCHANGED <<m_running, iterations, closeDelivered, evLog, currentFrameIndex,
                   frameLog, uboBuffers, dispatches, dispatchCall>>
    /\ UNCHANGED appOnly

\* mutant: the loop over the systems does not look at the handled flag
DeliverFrom_NoBreak(k, handled, handles) ==
    [i \in 1 .. (MaxSystems - k + 1) |-> k + i - 1]

\* the loop over m_systems from system k on: the systems whose onEvent is
\* called, in order. `handles` are the systems that mark the event handled
\* when they get it.
RECURSIVE DeliverFrom(_, _, _)
DeliverFrom(k, handled, handles) ==
    IF k \notin m_systems
    THEN <<>>
    ELSE IF handled
         THEN <<>>
         ELSE <<k>> \o DeliverFrom(k + 1, k \in handles, handles)

\* Application::onEvent. The dispatcher calls the application's handler for a
\* WindowCloseEvent; the handler returns nothing, so what the dispatcher sets
\* the handled flag to afterwards is open (funcReturn).
onEvent(funcReturn, handles) ==
    LET own == Dispatch("WindowClose", funcReturn)
        received == DeliverFrom(1, own.handled, handles)
    IN /\ runPc = "callback"
       /\ m_running' = IF own.invoked THEN FALSE ELSE m_running
       /\ m_handled' = (own.handled
                          \/ \E i \in 1 .. Len(received) : received[i] \in handles)
       /\ dispatchCall' = [op |-> "Dispatch", T |-> "WindowClose",
                           funcReturn |-> funcReturn, invoked |-> own.invoked,
                           returned |-> own.returned]
       /\ evLog' = [op |-> "onEvent", type |-> eventType,
                    handledByApplication |-> own.handled,
                    handles |-> handles, received |-> received]
       /\ closeDelivered' = (closeDelivered \/ eventType = "WindowClose")
       /\ runPc' = "poll"
       /\ UNCHANGED <<shouldClose, iterations, pending, currentFrameIndex, frameLog,
                      uboBuffers, eventType, dispatches>>
       /\ UNCHANGED appOnly

\* glfwPollEvents returns; the scene and the camera are updated
pollReturns ==
    /\ runPc = "poll"
    /\ pending = 0
    /\ runPc' = "beginFrame"
    /\ evLog' = [op |-> "none"]
    /\ shouldClose' \in {shouldClose, TRUE}
    /\ UNCHANGED <<m_running, iterations, pending, closeDelivered, currentFrameIndex,
                   frameLog, uboBuffers>>
    /\ UNCHANGED <<eventVars, appOnly>>

\* if (auto commandBuffer = m_renderer.beginFrame())
beginFrameCall ==
    /\ runPc = "beginFrame"
    /\ \E commandBuffer \in {NoCommandBuffer, "commandBuffer"} :
          /\ frameLog' = <<[op |-> "beginFrame", commandBuffer |-> commandBuffer]>>
          /\ runPc' = IF commandBuffer = NoCommandBuffer THEN "loopTest" ELSE "update"
    /\ UNCHANGED <<m_running, shouldClose, iterations, pending, closeDelivered, evLog,
                   currentFrameIndex, uboBuffers>>
    /\ UNCHANGED <<eventVars, appOnly>>

\* mutant: the uniform buffer of the next slot is written
updateCalls_NextSlot(index) ==
    << [op |-> "getFrameIndex", frameIndex |-> index],
       [op |-> "writeToBuffer", slot |-> (index + 1) % MAX_FRAMES_IN_FLIGHT],
       [op |-> "flush", slot |-> (index + 1) % MAX_FRAMES_IN_FLIGHT] >>

\* int frameIndex = m_renderer.getFrameIndex(); ...
\* uboBuffers[frameIndex]->writeToBuffer(&ubo); uboBuffers[frameIndex]->flush();
updateCalls(index) ==
    << [op |-> "getFrameIndex", frameIndex |-> index],
       [op |-> "writeToBuffer", slot |-> index],
       [op |-> "flush", slot |-> index] >>

\* the update part of the frame body
update ==
    /\ runPc = "update"
    /\ frameLog' = frameLog \o updateCalls(currentFrameIndex)
    /\ uboBuffers' = [slot \in Slots |->
                         IF \E i \in 1 .. Len(updateCalls(currentFrameIndex)) :
                               /\ updateCalls(currentFrameIndex)[i].op = "writeToBuffer"
                               /\ updateCalls(currentFrameIndex)[i].slot = slot
                         THEN iterations
                         ELSE uboBuffers[slot]]
    /\ runPc' = "render"
    /\ UNCHANGED <<m_running, shouldClose, iterations, pending, closeDelivered, evLog,
                   currentFrameIndex>>
    /\ UNCHANGED <<eventVars, appOnly>>

\* the render part of the frame body
render ==
    /\ runPc = "render"
    /\ frameLog' = frameLog \o << [op |-> "beginSwapChainRenderPass"],
                                  [op |-> "render"],
                                  [op |-> "endSwapChainRenderPass"] >>
    /\ runPc' = "endFrame"
    /\ UNCHANGED <<m_running, shouldClose, iterations, pending, closeDelivered, evLog,
                   currentFrameIndex, uboBuffers>>
    /\ UNCHANGED <<eventVars, appOnly>>

\* m_renderer.endFrame(): the renderer moves on to its next slot
endFrameCall ==
    /\ runPc = "endFrame"
    /\ frameLog' = Append(frameLog, [op |-> "endFrame"])
    /\ currentFrameIndex' = (currentFrameIndex + 1) % MAX_FRAMES_IN_FLIGHT
    /\ runPc' = "loopTest"
    /\ UNCHANGED <<m_running, shouldClose, iterations, pending, closeDelivered, evLog,
                   uboBuffers>>
    /\ UNCHANGED <<eventVars, appOnly>>

\* vkDeviceWaitIdle returns and run returns
waitIdle ==
    /\ runPc = "waitIdle"
    /\ runPc' = "returned"
    /\ UNCHANGED <<m_running, shouldClose, iterations, pending, closeDelivered, evLog,
                   currentFrameIndex, frameLog, uboBuffers>>
    /\ UNCHANGED <<eventVars, appOnly>>

NextApp ==
    \/ loopTest
    \/ \E type \in EventTypes : windowEvent(type)
    \/ \E funcReturn \in BOOLEAN, handles \in SUBSET m_systems :
          onEvent(funcReturn, handles)
    \/ pollReturns
    \/ beginFrameCall
    \/ update
    \/ render
    \/ endFrameCall
    \/ waitIdle

----------------------------------------------------------------------------
(* Model::Builder::loadModel. A position, color or normal is one value       *)
(* standing for its three floats; a texture coordinate is a pair <<u, v>>.   *)

\* the most mesh indices of a file
MaxMeshIndices == 3

\* the attribute arrays tinyobj hands over: two positions with their colors,
\* one normal, one texture coordinate
Attribs ==
    { [vertices |-> <<0, 1>>, colors |-> <<0, 1>>, normals |-> <<1>>,
       texcoords |-> <<<<0, 0>>>>],
      [vertices |-> <<1, 1>>, colors |-> <<1, 1>>, normals |-> <<0>>,
       texcoords |-> <<<<1, 1>>>>] }

\* tinyobj::index_t; -1 is "not given"
MeshIndex ==
    [vertex_index : {-1, 0, 1}, normal_index : {-1, 0}, texcoord_index : {-1, 0}]

\* Vertex vertex{}: every member zero
DefaultVertex ==
    [position |-> 0, color |-> 0, normal |-> 0, uv |-> <<0, 0>>]

\* a vertex of an earlier load, which no index of this file builds
StaleVertex ==
    [position |-> 2, color |-> 2, normal |-> 2, uv |-> <<2, 2>>]

ParkedLoad ==
    /\ attrib = <<>>
    /\ meshIndices = <<>>
    /\ vertices = <<>>
    /\ indices = <<>>
    /\ loadPc = "off"

\* sequences over S of length at most n
SeqUpTo(S, n) ==
    UNION { [1 .. k -> S] : k \in 0 .. n }

\* loadModel is called on a builder that is new or holds an earlier load
InitLoad ==
    /\ attrib \in Attribs
    /\ meshIndices \in SeqUpTo(MeshIndex, MaxMeshIndices)
    /\ \E earlier \in BOOLEAN :
          /\ vertices = IF earlier THEN <<StaleVertex>> ELSE <<>>
          /\ indices = IF earlier THEN <<0, 0, 0, 0>> ELSE <<>>
    /\ loadPc = "call"

\* the vertex the loop body builds from one index
VertexOf(index) ==
    [position |-> IF index.vertex_index >= 0
                  THEN attrib.vertices[index.vertex_index + 1]
                  ELSE DefaultVertex.position,
     color |-> IF index.vertex_index >= 0
               THEN attrib.colors[index.vertex_index + 1]
               ELSE DefaultVertex.color,
     normal |-> IF index.normal_index >= 0
                THEN attrib.normals[index.normal_index + 1]
                ELSE DefaultVertex.normal,
     uv |-> IF index.texcoord_index >= 0
            THEN << attrib.texcoords[index.texcoord_index + 1][1],
                    1 - attrib.texcoords[index.texcoord_index + 1][2] >>
            ELSE DefaultVertex.uv]

\* mutant: every vertex is pushed
LoadStep_AlwaysPush(b, index) ==
    [vertices |-> Append(b.vertices, VertexOf(index)),
     indices |-> Append(b.indices, Len(b.vertices)),
     uniqueVertices |-> b.uniqueVertices]

\* one pass of the inner loop: b holds vertices, indices and uniqueVertices
LoadStep(b, index) ==
    LET vertex == VertexOf(index)
        unique == IF vertex \notin DOMAIN b.uniqueVertices
                  THEN b.uniqueVertices @@ (vertex :> Len(b.vertices))
                  ELSE b.uniqueVertices
    IN [vertices |-> IF vertex \notin DOMAIN b.uniqueVertices
                     THEN Append(b.vertices, vertex)
                     ELSE b.vertices,
        indices |-> Append(b.indices, unique[vertex]),
        uniqueVertices |-> unique]

\* the loops over the first n indices, from cleared lists and an empty map
RECURSIVE LoadLoop(_)
LoadLoop(n) ==
    IF n = 0
    THEN [vertices |-> <<>>, indices |-> <<>>, uniqueVertices |-> <<>>]
    ELSE LoadStep(LoadLoop(n - 1), meshIndices[n])

\* Model::Builder::loadModel: tinyobj::LoadObj fails and the function throws
\* before it touches the lists, or the lists are cleared and filled
loadModel ==
    /\ loadPc = "call"
    /\ \/ /\ loadPc' = "threw"
          /\ UNCHANGED <<vertices, indices>>
       \/ /\ vertices' = LoadLoop(Len(meshIndices)).vertices
          /\ indices' = LoadLoop(Len(meshIndices)).indices
          /\ loadPc' = "loaded"
    /\ UNCHANGED <<attrib, meshIndices>>
    /\ UNCHANGED notLoad

NextLoad ==
    loadModel

----------------------------------------------------------------------------
(* RayTracingSceneManagerSystem: the mesh-instance buffer. The header        *)
(* declares MeshInstanceData and the system's members; the function bodies   *)
(* are not among the sources, so the build follows the design document: one  *)
(* Mesh Instance Record per renderable entity, in iteration order, rebuilt   *)
(* from the scene on every build.                                            *)

\* the most entities of a scene
MaxEntities == 3

\* the most builds followed
MaxBuilds == 2

NoComponent == "none"

\* the entities a scene is made of: three renderable ones (transform, mesh
\* and material), a light without mesh and material, and a mesh without
\* material
EntityKinds ==
    { [transform |-> "t1", mesh |-> "quad", material |-> "brick",
       tilingFactor |-> 1, tint |-> "white"],
      [transform |-> "t2", mesh |-> "cube", material |-> "metal",
       tilingFactor |-> 50, tint |-> "red"],
      [transform |-> "t3", mesh |-> "quad", material |-> "metal",
       tilingFactor |-> 1, tint |-> "white"],
      [transform |-> "t4", mesh |-> NoComponent, material |-> NoComponent,
       tilingFactor |-> 1, tint |-> "white"],
      [transform |-> "t5", mesh |-> "cube", material |-> NoComponent,
       tilingFactor |-> 1, tint |-> "white"] }

\* the Material Registry's index of a material
MaterialIndex(material) ==
    CASE material = "brick" -> 2
      [] material = "metal" -> 0
      [] OTHER -> 1

\* the device addresses of a mesh's vertex and index buffers
VertexBufferAddress(mesh) ==
    IF mesh = "quad" THEN 4096 ELSE 8192

IndexBufferAddress(mesh) ==
    IF mesh = "quad" THEN 4608 ELSE 8704

\* an entity the build iterates over: it has a transform, a mesh and a material
Renderable(entity) ==
    /\ entity.transform # NoComponent
    /\ entity.mesh # NoComponent
    /\ entity.material # NoComponent

ParkedMesh ==
    /\ sceneEntities = <<>>
    /\ m_meshInstanceData = <<>>
    /\ meshBuilds = 0
    /\ meshPc = "off"

InitMesh ==
    /\ sceneEntities \in SeqUpTo(EntityKinds, MaxEntities)
    /\ m_meshInstanceData = <<>>
    /\ meshBuilds = 0
    /\ meshPc = "idle"

\* mutant: the material index is the position of the entity in the scene
MeshInstanceRecord_IndexByPosition(entity, position) ==
    [vertexBufferAddress |-> VertexBufferAddress(entity.mesh),
     indexBufferAddress |-> IndexBufferAddress(entity.mesh),
     materialIndex |-> position - 1,
     textureTilingFactor |-> entity.tilingFactor,
     textureTintColor |-> entity.tint]

\* the MeshInstanceData of one entity (position: its place in the scene)
MeshInstanceRecord(entity, position) ==
    [vertexBufferAddress |-> VertexBufferAddress(entity.mesh),
     indexBufferAddress |-> IndexBufferAddress(entity.mesh),
     materialIndex |-> MaterialIndex(entity.material),
     textureTilingFactor |-> entity.tilingFactor,
     textureTintColor |-> entity.tint]

\* the records of the first n entities of the scene
RECURSIVE MeshInstanceRecords(_)
MeshInstanceRecords(n) ==
    IF n = 0
    THEN <<>>
    ELSE IF Renderable(sceneEntities[n])
         THEN Append(MeshInstanceRecords(n - 1),
                     MeshInstanceRecord(sceneEntities[n], n))
         ELSE MeshInstanceRecords(n - 1)

\* RayTracingSceneManagerSystem::createTLAS, the mesh-instance part: the
\* records are rebuilt from the scene
createTLAS ==
    /\ meshPc = "idle"
    /\ meshBuilds < MaxBuilds
    /\ meshBuilds' = meshBuilds + 1
    /\ m_meshInstanceData' = MeshInstanceRecords(Len(sceneEntities))
    /\ UNCHANGED <<sceneEntities, meshPc>>
    /\ UNCHANGED notMesh

\* between two frames the scene gains or loses its last entity
sceneChanges ==
    /\ meshPc = "idle"
    /\ meshBuilds < MaxBuilds
    /\ \/ /\ sceneEntities # <<>>
          /\ sceneEntities' = SubSeq(sceneEntities, 1, Len(sceneEntities) - 1)
       \/ /\ Len(sceneEntities) < MaxEntities
          /\ \E entity \in EntityKinds : sceneEntities' = Append(sceneEntities, entity)
    /\ UNCHANGED <<m_meshInstanceData, meshBuilds, meshPc>>
    /\ UNCHANGED notMesh

NextMesh ==
    \/ createTLAS
    \/ sceneChanges

----------------------------------------------------------------------------
(* Claims about Buffer::getAlignment (SpecAlign) *)

SpecAlignments == {0, 1, 4, 16, 256}

\* instanceSize + minOffsetAlignment - 1 is representable in VkDeviceSize
NoAlignOverflow ==
    argMinOffsetAlignment = 0
    \/ argInstanceSize + argMinOffsetAlignment - 1 < DeviceSizeMod

AlignmentContract ==
    /\ alignResult >= argInstanceSize
    /\ argMinOffsetAlignment > 0 => alignResult % argMinOffsetAlignment = 0
    /\ argMinOffsetAlignment = 0 => alignResult = argInstanceSize

\* C3 as stated: for every instanceSize > 0 and minOffsetAlignment in
\* {0,1,4,16,256}, getAlignment returns a >= instanceSize with
\* a % minOffsetAlignment = 0 when minOffsetAlignment > 0 and a = instanceSize
\* when minOffsetAlignment = 0.
C3_AlignmentContract_AllSizes ==
    (alignPc = "returned" /\ argInstanceSize > 0
        /\ argMinOffsetAlignment \in SpecAlignments)
    => AlignmentContract

\* C3 amended: the same, for every instanceSize > 0 whose sum
\* instanceSize + minOffsetAlignment - 1 does not wrap around VkDeviceSize.
C3_AlignmentContract ==
    (alignPc = "returned" /\ argInstanceSize > 0
        /\ argMinOffsetAlignment \in SpecAlignments /\ NoAlignOverflow)
    => AlignmentContract

\* C3 witness: a size that is not a multiple of 16 was padded up to one
C3_Witness ==
    /\ alignPc = "returned"
    /\ argMinOffsetAlignment = 16
    /\ argInstanceSize > 0
    /\ argInstanceSize % 16 # 0
    /\ alignResult > argInstanceSize
    /\ alignResult % 16 = 0

\* the smallest multiple of m that is >= s
SmallestMultipleAtLeast(s, m) ==
    CHOOSE x \in s .. (s + m - 1) : x % m = 0

\* C4 as stated: for every instanceSize >= 1 and minOffsetAlignment >= 1,
\* getAlignment returns the smallest multiple of minOffsetAlignment that is
\* >= instanceSize.
C4_CeilToMultiple_AnyAlignment ==
    (alignPc = "returned" /\ argInstanceSize >= 1 /\ argMinOffsetAlignment >= 1
        /\ NoAlignOverflow)
    => alignResult = SmallestMultipleAtLeast(argInstanceSize, argMinOffsetAlignment)

\* C4 amended: for every instanceSize >= 1 and every minOffsetAlignment that is
\* a power of two, provided instanceSize + minOffsetAlignment - 1 does not wrap
\* around VkDeviceSize, getAlignment returns the smallest multiple of
\* minOffsetAlignment that is >= instanceSize.
C4_CeilToMultiple ==
    (alignPc = "returned" /\ argInstanceSize >= 1
        /\ argMinOffsetAlignment \in PowersOfTwo /\ NoAlignOverflow)
    => alignResult = SmallestMultipleAtLeast(argInstanceSize, argMinOffsetAlignment)

\* C4 witness: 5 bytes under an alignment of 4 take 8
C4_Witness ==
    /\ alignPc = "returned"
    /\ argInstanceSize = 5
    /\ argMinOffsetAlignment = 4
    /\ alignResult = 8

----------------------------------------------------------------------------
(* Claims about Buffer::writeToIndex (Spec) *)

\* the active mapping covers the instanceSize bytes of element `index`
MapCovers(index) ==
    /\ m_mapped # NULL
    /\ m_mapped <= index * m_alignmentSize
    /\ index * m_alignmentSize + m_instanceSize <= m_mapped + mappedSize

\* n bytes of the memory from `offset` on
ReadBytes(offset, n) ==
    [k \in 1 .. n |-> memory[offset + k - 1]]

\* C1: on a buffer mapped by a map(size, offset) whose range covers element i,
\* after writeToIndex(data, i) has returned, the instanceSize bytes at the
\* offset descriptorInfoForIndex(i) reports are the bytes of data. (Only runs in
\* which no copy has left the buffer's memory are taken.)
C1_WriteToIndexReadBack ==
    (bufCall.op = "writeToIndex" /\ bufPc = "alive" /\ ~overrun
        /\ MapCovers(bufCall.index))
    => ReadBytes(descriptorInfoForIndex(bufCall.index).offset, m_instanceSize)
         = bufCall.data

\* C2: writeToIndex(data, i) leaves every byte of the region
\* [j*alignmentSize, (j+1)*alignmentSize) of every other element j unchanged.
\* (Only steps whose mapping covers element i and whose copy stays inside the
\* buffer's memory are taken.)
C2_WriteToIndexFrame ==
    [][\A v \in Byte, i \in Indices :
          (MapCovers(i) /\ writeToIndexCall(v, i) /\ bufPc' = "alive" /\ ~overrun')
          => \A j \in Indices \ {i} :
                \A k \in (j * m_alignmentSize) .. ((j + 1) * m_alignmentSize - 1) :
                    memory'[k] = memory[k]]_vars

----------------------------------------------------------------------------
(* Claims about DescriptorPool (SpecPool) *)

\* one more set of the layout keeps the sets within maxSets and the
\* descriptors of each type within the count declared for the type
WithinDeclaredLimits(sets, layout) ==
    /\ Cardinality(DOMAIN sets) + 1 <= m_maxSets
    /\ \A t \in DescriptorTypes :
          UsedBy(sets, t) + LayoutDemand(layout, t) <= m_poolSizes[t]

\* C5: from a freshly created or freshly reset pool (no set freed one by one
\* since), allocateDescriptorSet returns true exactly when the new set stays
\* within maxSets and the declared count of each type; a call that would exceed
\* a limit returns false, raises nothing and leaves the pool's sets as they were.
C5_AllocateUpToCapacity ==
    (poolCall.op = "allocateDescriptorSet" /\ ~poolCall.fragmentedBefore)
    => /\ poolCall.success = WithinDeclaredLimits(poolCall.setsBefore, poolCall.layout)
       /\ ~poolCall.raised
       /\ poolCall.success =>
             /\ poolCall.descriptor \in DOMAIN poolSets
             /\ poolCall.descriptor \notin DOMAIN poolCall.setsBefore
       /\ ~poolCall.success => poolSets = poolCall.setsBefore

\* C5 witness: after allocations that succeeded, the one that exceeds a limit
\* has returned false
C5_Witness ==
    /\ poolCall.op = "allocateDescriptorSet"
    /\ ~poolCall.fragmentedBefore
    /\ DOMAIN poolCall.setsBefore # {}
    /\ ~WithinDeclaredLimits(poolCall.setsBefore, poolCall.layout)
    /\ ~poolCall.success
    /\ poolSets = poolCall.setsBefore

\* C6: after any sequence of allocateDescriptorSet, freeDescriptors and
\* resetPool, the live descriptors of each type stay within the count declared
\* for the type and the live sets within maxSets; after resetPool no set is live.
C6_PoolWithinDeclaredSizes ==
    poolPc = "alive"
    => /\ \A t \in DescriptorTypes : UsedBy(poolSets, t) <= m_poolSizes[t]
       /\ Cardinality(DOMAIN poolSets) <= m_maxSets
       /\ poolCall.op = "resetPool" => DOMAIN poolSets = {}

\* C6 witness: resetPool has returned a pool that held sets to zero
C6_Witness ==
    /\ poolCall.op = "resetPool"
    /\ DOMAIN poolCall.setsBefore # {}
    /\ DOMAIN poolSets = {}
    /\ \A t \in DescriptorTypes : UsedBy(poolSets, t) = 0

----------------------------------------------------------------------------
(* Claims about DescriptorWriter (SpecWriter) *)

\* C10: build(set) allocates one set; when the allocation succeeds every
\* pending write is applied and success is reported; when it fails, failure is
\* reported to the caller and no write is submitted to the device.
C10_BuildReportsFailure ==
    poolCall.op = "build"
    => /\ poolCall.allocated =>
             /\ poolCall.submitted = Len(m_writes)
             /\ poolCall.returned # "false"
       /\ ~poolCall.allocated =>
             /\ poolCall.returned = "false"
             /\ poolCall.submitted = 0

----------------------------------------------------------------------------
(* Claims about the growable allocator and the frame loop (SpecGrow).        *)

\* C7: every allocate(layout) call makes at most two attempts.  If the ready
\* pool accepts the layout the call makes one attempt, moves no pool and
\* creates no pool.  Otherwise the ready pool goes to the slot's full list, a
\* pool of the free list (or, if there is none, a newly created pool) becomes
\* the ready pool and is tried exactly once; if it rejects the layout too the
\* call is fatal, and nothing is attempted after a fatal call.
C7_AllocateAtMostTwoAttempts ==
    [][ /\ growPc # "fatal"
        /\ (allocsThisFrame' = allocsThisFrame + 1) =>
             LET f == frameIndex
                 layout == growCall'.layout
                 first == GrowPoolHasRoom(readyPool[f], layout)
             IN /\ growCall'.attempts = IF first THEN 1 ELSE 2
                /\ first =>
                     /\ fullPools' = fullPools
                     /\ freePools' = freePools
                     /\ AllPoolIds' = AllPoolIds
                     /\ readyPool'[f] = GrowPoolAllocate(readyPool[f], layout)
                     /\ growPc' = "recording"
                /\ ~first =>
                     /\ fullPools'[f] = fullPools[f] \cup {readyPool[f]}
                     /\ readyPool'[f].id # readyPool[f].id
                     /\ IF freePools[f] # {}
                        THEN /\ readyPool'[f].id \in { p.id : p \in freePools[f] }
                             /\ AllPoolIds' = AllPoolIds
                        ELSE /\ readyPool'[f].id \notin AllPoolIds
                             /\ AllPoolIds' = AllPoolIds \cup {readyPool'[f].id}
                     /\ (growPc' = "fatal") <=> (growCall'.result = "fatal")
                     /\ readyPool'[f].sets = IF growCall'.result = "ok" THEN 1 ELSE 0
      ]_vars

\* a call whose two attempts both failed
C7_Witness ==
    /\ growCall.op = "allocate"
    /\ growCall.attempts = 2
    /\ growCall.result = "fatal"
    /\ growPc = "fatal"

\* C8 as stated: whenever the ready pool was exhausted, the replacement pool
\* has at least the exhausted pool's capacity times the growth factor and the
\* retried allocation succeeds, at every growth step.
C8_ReplacementGrowsAndRetrySucceeds ==
    (growCall.op = "allocate" /\ growCall.attempts = 2) =>
        /\ growCall.replacementCapacity >= growCall.exhaustedCapacity * GrowthFactor
        /\ growCall.result = "ok"

\* C8: whenever the ready pool was exhausted, a newly created replacement pool
\* has the exhausted pool's capacity times the growth factor, clamped to the
\* configured maximum; a replacement taken from the free list keeps the
\* capacity it was created with; and the retried allocation succeeds exactly
\* when the layout fits an empty pool of the replacement's capacity.
C8_ReplacementCapacityClamped ==
    (growCall.op = "allocate" /\ growCall.attempts = 2) =>
        /\ readyPool[growCall.slot].capacity = growCall.replacementCapacity
        /\ ~growCall.pulled =>
              growCall.replacementCapacity =
                  Min(growCall.exhaustedCapacity * GrowthFactor, MaxSetsPerPool)
        /\ growCall.pulled =>
              growCall.replacementCapacity \in InitialSetsPerPool .. MaxSetsPerPool
        /\ (growCall.result = "ok") <=>
              \A t \in DescriptorTypes :
                 LayoutDemand(growCall.layout, t)
                     <= Ratio(t) * growCall.replacementCapacity

\* a growth step taken when the exhausted pool already has the maximum capacity
C8_Witness ==
    /\ growCall.op = "allocate"
    /\ growCall.attempts = 2
    /\ ~growCall.pulled
    /\ growCall.exhaustedCapacity = MaxSetsPerPool
    /\ growCall.result = "ok"

----------------------------------------------------------------------------
(* Claims about DescriptorWriter and DescriptorSetLayout::Builder.           *)

\* C11: after build or overwrite has applied the pending writes, the writer
\* has no pending write left (so that a following overwrite on another set
\* would apply nothing).
C11_WritesClearedAfterApply ==
    (\/ poolCall.op = "overwrite"
     \/ (poolCall.op = "build" /\ poolCall.returned # "false"))
        => m_writes = <<>>

\* the writer holds one buffer write for binding 0 and one image write for
\* binding 1 of the two-binding layout "ubo_tex"
OneBufferOneImage ==
    /\ m_setLayout = "ubo_tex"
    /\ Len(m_writes) = 2
    /\ \E i, j \in 1 .. 2 :
          /\ i # j
          /\ m_writes[i].kind = "buffer" /\ m_writes[i].dstBinding = 0
          /\ m_writes[j].kind = "image" /\ m_writes[j].dstBinding = 1

\* the info the writer holds for a binding
InfoFor(binding) ==
    LET i == CHOOSE k \in 1 .. Len(m_writes) : m_writes[k].dstBinding = binding
    IN m_writes[i].info

\* C12: for a writer holding one buffer write and one image write against a
\* two-binding layout, the set a successful build produced, and the set after
\* every overwrite, holds exactly the two infos; applying overwrite once more
\* leaves the set's bindings as they are.
C12_BuildThenOverwriteIdempotent ==
    (/\ OneBufferOneImage
     /\ poolCall.op \in {"build", "overwrite"}
     /\ poolCall.op = "build" => poolCall.allocated)
        => /\ poolCall.set \in DOMAIN descriptors
           /\ descriptors[poolCall.set] = (0 :> InfoFor(0) @@ 1 :> InfoFor(1))
           /\ overwrite(poolCall.set, poolSets, descriptors).descriptors = descriptors

\* overwrite has been applied to the set the writer built
C12_Witness ==
    /\ OneBufferOneImage
    /\ poolCall.op = "overwrite"
    /\ m_writes[1].dstSet = poolCall.set
    /\ descriptors[poolCall.set] = (0 :> "bufferInfoA" @@ 1 :> "imageInfoA")

\* C13: in a build with assertions, writeBuffer(binding, info) and
\* writeImage(binding, info) append one pending write for the binding when the
\* writer's layout declares the binding with descriptor count 1; otherwise the
\* call fails an assertion and the pending writes stay as they were.
C13_WriteRequiresSingleBinding ==
    [][ ~NDEBUG =>
          \A binding \in WrittenBindings :
            ( \/ \E bufferInfo \in BufferInfos : writeBuffer(binding, bufferInfo)
              \/ \E imageInfo \in ImageInfos : writeImage(binding, imageInfo) )
            => LET declared == m_bindings(m_setLayout)
               IN IF /\ binding \in DOMAIN declared
                     /\ declared[binding].descriptorCount = 1
                  THEN /\ Len(m_writes') = Len(m_writes) + 1
                       /\ SubSeq(m_writes', 1, Len(m_writes)) = m_writes
                       /\ m_writes'[Len(m_writes')].dstBinding = binding
                       /\ poolPc' = "alive"
                  ELSE /\ m_writes' = m_writes
                       /\ poolPc' = "aborted"
      ]_vars

\* a write call has failed its assertion
C13_Witness ==
    /\ ~NDEBUG
    /\ poolPc = "aborted"
    /\ layoutPc = "built"
    /\ poolCall.op \in {"writeBuffer", "writeImage"}

\* C14: no pending write was added by writeBuffer on a binding declared with an
\* image descriptor type or by writeImage on a binding declared with a buffer
\* descriptor type, and every pending write carries the declared type (stated
\* for a build with assertions, where every pending write is on a declared
\* binding).
C14_WriteMatchesDeclaredType ==
    ~NDEBUG =>
        \A i \in 1 .. Len(m_writes) :
            LET declared == m_bindings(m_setLayout)[m_writes[i].dstBinding]
            IN /\ m_writes[i].descriptorType = declared.descriptorType
               /\ KindOf(declared.descriptorType) = m_writes[i].kind

\* C15: in a build with assertions, addBinding with an index the builder
\* already holds fails its assertion and leaves the builder's bindings as they
\* were; with a new index it records the binding and keeps the others; so an
\* index is never recorded twice or replaced.
C15_AddBindingFailsFastOnDuplicate ==
    [][ ~NDEBUG =>
          \A binding \in BuilderIndices, descriptorType \in DescriptorTypes,
             count \in BuilderCounts :
            addBindingCall(binding, descriptorType, count) =>
               IF binding \in DOMAIN builderBindings
               THEN /\ builderBindings' = builderBindings
                    /\ layoutPc' = "aborted"
               ELSE /\ DOMAIN builderBindings' = DOMAIN builderBindings \cup {binding}
                    /\ builderBindings'[binding] = Binding(descriptorType, count)
                    /\ \A k \in DOMAIN builderBindings :
                          builderBindings'[k] = builderBindings[k]
                    /\ layoutPc' = layoutPc
      ]_vars

\* addBinding has failed its assertion on a builder that holds bindings
C15_Witness ==
    /\ ~NDEBUG
    /\ layoutPc = "aborted"
    /\ builderBindings # <<>>

\* C17: freeDescriptors on a pool created without the free-descriptor-set flag
\* issues no free request to the device and releases no set.
C17_FreeOnlyWithFreeBit ==
    (poolCall.op = "freeDescriptors" /\ FREE_DESCRIPTOR_SET_BIT \notin m_poolFlags)
        => /\ ~poolCall.vkFreeDescriptorSets
           /\ poolSets = poolCall.setsBefore

\* C16: the binding map of a built layout never changes, whatever is called on
\* the builder or on a writer of the layout afterwards.
C16_LayoutBindingsFrozen ==
    [][layoutBindings' = layoutBindings]_vars

----------------------------------------------------------------------------
(* Claims about Buffer::writeToBuffer, flush and invalidate.                 *)

\* C18: writeToBuffer on a Buffer that is not mapped does not get past its
\* check of m_mapped (the assertion ends the process; in a build without
\* assertions the copy through the null pointer faults) and copies no byte.
C18_WriteRequiresMapping ==
    [][ (bufCall'.op = "writeToBuffer" /\ bufPc = "alive" /\ m_mapped = NULL)
           => /\ bufPc' \in {"aborted", "crashed"}
              /\ memory' = memory
              /\ overrun' = overrun
      ]_vars

\* writeToBuffer was called on a Buffer that is not mapped
C18_Witness ==
    /\ bufCall.op = "writeToBuffer"
    /\ m_mapped = NULL
    /\ bufPc = "aborted"

\* C19: a flush or invalidate request has been issued to the device only for a
\* Buffer whose mapping is active.
C19_FlushOnlyWhileMapped ==
    bufCall.op \in {"flush", "invalidate", "flushIndex", "invalidateIndex"}
        => m_mapped # NULL

\* C20 as stated: on a mapped Buffer, writeToBuffer(data, VK_WHOLE_SIZE,
\* offset) copies exactly m_bufferSize bytes of data to the start of the
\* mapped region, whatever offset is; with another size it copies exactly size
\* bytes, offset bytes into the mapped region; no other byte changes.
C20_WriteToBufferCopiesExactly ==
    [][ (bufCall'.op = "writeToBuffer" /\ bufPc = "alive" /\ m_mapped # NULL)
             => LET v == bufCall'.v
                    size == bufCall'.size
                    offset == bufCall'.offset
                    n == IF size = VK_WHOLE_SIZE THEN m_bufferSize ELSE size
                    dst == IF size = VK_WHOLE_SIZE THEN m_mapped ELSE m_mapped + offset
                IN /\ bufPc' = "alive"
                   /\ overrun' = overrun
                   /\ \A k \in 0 .. (n - 1) :
                         /\ dst + k \in DOMAIN memory'
                         /\ memory'[dst + k] = Data(v, n)[k + 1]
                   /\ \A k \in DOMAIN memory :
                         (k < dst \/ k >= dst + n) => memory'[k] = memory[k]
      ]_vars

\* the bytes writeToBuffer(data, size, offset) copies lie in the mapped range
CopyFitsMapping(size, offset) ==
    /\ m_mapped # NULL
    /\ IF size = VK_WHOLE_SIZE
       THEN m_bufferSize <= mappedSize
       ELSE offset + size <= mappedSize

\* C20: on a mapped Buffer whose mapped range holds the bytes copied,
\* writeToBuffer(data, VK_WHOLE_SIZE, offset) copies exactly m_bufferSize bytes
\* of data to the start of the mapped region, whatever offset is; with another
\* size it copies exactly size bytes, offset bytes into the mapped region; no
\* other byte changes.
C20_WriteToBufferCopiesWithinMapping ==
    [][ (/\ bufCall'.op = "writeToBuffer"
         /\ bufPc = "alive"
         /\ CopyFitsMapping(bufCall'.size, bufCall'.offset))
             => LET v == bufCall'.v
                    size == bufCall'.size
                    offset == bufCall'.offset
                    n == IF size = VK_WHOLE_SIZE THEN m_bufferSize ELSE size
                    dst == IF size = VK_WHOLE_SIZE THEN m_mapped ELSE m_mapped + offset
                IN /\ bufPc' = "alive"
                   /\ overrun' = overrun
                   /\ \A k \in 0 .. (n - 1) :
                         /\ dst + k \in DOMAIN memory'
                         /\ memory'[dst + k] = Data(v, n)[k + 1]
                   /\ \A k \in DOMAIN memory :
                         (k < dst \/ k >= dst + n) => memory'[k] = memory[k]
      ]_vars

\* a whole-size write with a non-zero offset argument has filled the buffer
\* from its start
C20_Witness ==
    /\ bufCall.op = "writeToBuffer"
    /\ bufCall.size = VK_WHOLE_SIZE
    /\ bufCall.offset # 0
    /\ m_mapped = 0
    /\ mappedSize = m_bufferSize
    /\ bufPc = "alive"
    /\ ~overrun
    /\ \A k \in DOMAIN memory : memory[k] = Data(bufCall.v, m_bufferSize)[k + 1]

----------------------------------------------------------------------------
(* Claims about the life of a Buffer: map, unmap, destruction (SpecLife).    *)

\* C21: map on a Buffer whose memory is not host-visible returns a failure
\* result and leaves the Buffer unmapped (no host pointer recorded); on
\* host-visible memory a mapped Buffer stays mapped until unmap() is called
\* (by the caller or by the destructor).
C21_MapFailsWithoutHostVisible ==
    [][ /\ (/\ bufCall'.op = "map"
            /\ bufPc = "alive"
            /\ HOST_VISIBLE \notin m_memoryPropertyFlags)
               => /\ bufCall'.result # "VK_SUCCESS"
                  /\ m_mapped' = NULL
        /\ (/\ HOST_VISIBLE \in m_memoryPropertyFlags
            /\ m_mapped # NULL
            /\ m_mapped' = NULL)
               => bufCall'.op \in {"unmap", "~Buffer"}
      ]_vars

\* C22: destroying a Buffer issues, in this order and each once, vkUnmapMemory
\* if and only if the memory is mapped, vkDestroyBuffer, vkFreeMemory, and
\* leaves nothing mapped; unmap on a Buffer that is not mapped issues no
\* device call and changes nothing.
C22_DestructionOrder ==
    [][ /\ bufCall'.op = "~Buffer"
               => /\ bufCall'.device =
                         (IF mappedSize > 0 THEN <<"vkUnmapMemory">> ELSE <<>>)
                             \o <<"vkDestroyBuffer", "vkFreeMemory">>
                  /\ mappedSize' = 0
                  /\ m_mapped' = NULL
                  /\ bufPc' = "destroyed"
        /\ (bufCall'.op = "unmap" /\ mappedSize = 0)
               => /\ bufCall'.device = <<>>
                  /\ UNCHANGED <<m_mapped, mappedSize, memory, bufPc>>
      ]_vars

\* a mapped Buffer has been destroyed
C22_Witness ==
    /\ bufPc = "destroyed"
    /\ bufCall.op = "~Buffer"
    /\ bufCall.device = <<"vkUnmapMemory", "vkDestroyBuffer", "vkFreeMemory">>

----------------------------------------------------------------------------
(* Claims about the sizes a Buffer is constructed with (SpecCtor).           *)

\* bufferSize = alignmentSize * instanceCount with alignmentSize >=
\* instanceSize, and the range each index helper addresses for an element i,
\* starting at i * alignmentSize, lies inside [0, bufferSize)
IndexRangesInsideBuffer ==
    /\ m_bufferSize = m_alignmentSize * m_instanceCount
    /\ m_alignmentSize >= m_instanceSize
    /\ \A i \in Indices :
          LET info == descriptorInfoForIndex(i)
          IN /\ info.offset = i * m_alignmentSize
             /\ info.range <= m_alignmentSize
             /\ info.offset + info.range <= m_bufferSize
    /\ bufCall.op \in {"flushIndex", "invalidateIndex"}
          => /\ bufCall.range.size <= m_alignmentSize
             /\ bufCall.range.offset + bufCall.range.size <= m_bufferSize
    /\ (bufCall.op = "writeToIndex" /\ m_mapped = 0 /\ mappedSize = m_bufferSize)
          => bufPc = "alive" /\ ~overrun

\* neither instanceSize + minOffsetAlignment - 1 nor alignmentSize *
\* instanceCount wraps around VkDeviceSize
NoCtorOverflow ==
    /\ NoAlignOverflow
    /\ alignResult * m_instanceCount < DeviceSizeMod

\* C24 as stated: for every constructed Buffer, bufferSize = alignmentSize *
\* instanceCount, alignmentSize >= instanceSize, and the byte range the index
\* helpers address for every index below instanceCount lies inside the buffer.
C24_IndexRangesInsideBuffer_AnySize ==
    bufPc # "off" => IndexRangesInsideBuffer

\* C24 amended: the same, for every Buffer constructed with sizes whose
\* instanceSize + minOffsetAlignment - 1 and alignmentSize * instanceCount do
\* not wrap around VkDeviceSize.
C24_IndexRangesInsideBuffer ==
    (bufPc # "off" /\ NoCtorOverflow) => IndexRangesInsideBuffer

\* the last element of a Buffer whose elements are padded has been flushed
C24_Witness ==
    /\ NoCtorOverflow
    /\ m_instanceCount > 1
    /\ m_alignmentSize > m_instanceSize
    /\ bufCall.op = "flushIndex"
    /\ bufCall.range.offset = (m_instanceCount - 1) * m_alignmentSize
    /\ bufCall.range.offset + bufCall.range.size = m_bufferSize

----------------------------------------------------------------------------
(* Claims about the uploads of Model (SpecModel).                            *)

\* the buffer handles created by the calls before position p of the log
CreatedBefore(p) ==
    { modelLog[q].buffer : q \in { r \in 1 .. (p - 1) : modelLog[r].op = "Buffer" } }

\* the source data of the upload whose copy is at position p of the log
SourceOf(p) ==
    IF modelLog[p].dst = m_vertexBuffer.handle THEN argVertices ELSE argIndices

\* C23: every buffer-to-buffer copy issued by createVertexBuffers and
\* createIndexBuffers comes directly after: a host-visible staging buffer is
\* created, mapped, and written with the whole source data; a destination
\* buffer with a handle not seen before is created on device-local memory; the
\* copy goes from staging to destination and is Len(data) = elementSize *
\* elementCount bytes long, the size of both buffers; the staging buffer is
\* destroyed after the copy and not before.
C23_StagingProtocol ==
    \A p \in 1 .. Len(modelLog) :
        modelLog[p].op = "copyBuffer"
        => /\ p > 4
           /\ p < Len(modelLog)
           /\ LET create == modelLog[p - 4]
                  mapped == modelLog[p - 3]
                  filled == modelLog[p - 2]
                  fresh == modelLog[p - 1]
                  copy == modelLog[p]
                  destroy == modelLog[p + 1]
              IN /\ create.op = "Buffer"
                 /\ create.buffer = copy.src
                 /\ HOST_VISIBLE \in create.memoryPropertyFlags
                 /\ mapped.op = "map" /\ mapped.buffer = copy.src
                 /\ filled.op = "writeToBuffer" /\ filled.buffer = copy.src
                 /\ filled.data = SourceOf(p)
                 /\ filled.written = Len(SourceOf(p))
                 /\ fresh.op = "Buffer"
                 /\ fresh.buffer = copy.dst
                 /\ fresh.buffer \notin CreatedBefore(p - 1)
                 /\ DEVICE_LOCAL \in fresh.memoryPropertyFlags
                 /\ copy.size = Len(SourceOf(p))
                 /\ copy.size = create.size
                 /\ copy.size = fresh.size
                 /\ destroy.op = "~Buffer" /\ destroy.buffer = copy.src
                 /\ \A q \in 1 .. (p - 1) :
                       ~(modelLog[q].op = "~Buffer" /\ modelLog[q].buffer = copy.src)

\* both uploads of a Model with an index list have been made, and the buffers
\* hold the source data
C23_Witness ==
    /\ modelPc = "done"
    /\ Len(modelLog) = 12
    /\ m_hasIndexBuffer
    /\ \A k \in 1 .. Len(argVertices) : m_vertexBuffer.contents[k - 1] = argVertices[k]
    /\ \A k \in 1 .. Len(argIndices) : m_indexBuffer.contents[k - 1] = argIndices[k]

----------------------------------------------------------------------------
(* Claims about EventDispatcher::Dispatch (SpecEvent).                       *)

\* C27: Dispatch<T>(func) returns true exactly when the event's type is T;
\* func is invoked exactly when the type matches and the event is not yet
\* handled, and then m_handled becomes func's return value; otherwise
\* m_handled is left as it is, so a handled event stays handled.
C27_DispatchContract ==
    [][ dispatches' = dispatches + 1
          => /\ dispatchCall'.returned = (eventType = dispatchCall'.T)
             /\ dispatchCall'.invoked = (eventType = dispatchCall'.T /\ ~m_handled)
             /\ dispatchCall'.invoked => m_handled' = dispatchCall'.funcReturn
             /\ ~dispatchCall'.invoked => m_handled' = m_handled
             /\ m_handled => m_handled'
      ]_vars

\* a handled event was dispatched again to a matching func that returns false:
\* Dispatch returned true, func was not called and the event is still handled
C27_Witness ==
    /\ dispatchCall.op = "Dispatch"
    /\ dispatchCall.T = eventType
    /\ dispatchCall.returned
    /\ ~dispatchCall.invoked
    /\ ~dispatchCall.funcReturn
    /\ m_handled

----------------------------------------------------------------------------
(* Claims about Application::run and Application::onEvent (SpecApp).         *)

\* the positions of the iteration's log at which `op` was called
CallsOf(op) ==
    { p \in 1 .. Len(frameLog) : frameLog[p].op = op }

\* C26: in every iteration of the loop, the uniform buffer is written and
\* flushed only after beginFrame has returned a command buffer, for the slot
\* getFrameIndex returned after that call, before beginSwapChainRenderPass and
\* endFrame; no uniform buffer of another slot is written in the iteration; an
\* iteration whose beginFrame returns no command buffer writes no uniform
\* buffer and records no render pass.
C26_WritesOnlyCurrentSlot ==
    /\ \A p \in CallsOf("writeToBuffer") \cup CallsOf("flush") :
          /\ frameLog[1].op = "beginFrame"
          /\ frameLog[1].commandBuffer # NoCommandBuffer
          /\ frameLog[2].op = "getFrameIndex"
          /\ p > 2
          /\ frameLog[p].slot = frameLog[2].frameIndex
          /\ frameLog[p].slot = currentFrameIndex \/ CallsOf("endFrame") # {}
          /\ \A q \in CallsOf("beginSwapChainRenderPass") \cup CallsOf("endFrame") : p < q
    /\ \A p \in CallsOf("flush") : \E q \in CallsOf("writeToBuffer") : q < p
    /\ \A slot \in DOMAIN uboBuffers :
          (uboBuffers[slot] = iterations /\ iterations > 0)
             => \E p \in CallsOf("getFrameIndex") : frameLog[p].frameIndex = slot
    /\ (frameLog # <<>> /\ frameLog[1].commandBuffer = NoCommandBuffer)
          => /\ Len(frameLog) = 1
             /\ \A slot \in DOMAIN uboBuffers :
                   uboBuffers[slot] # iterations

\* the second frame has been recorded: its uniform buffer write went to slot 1
\* and slot 0 keeps what the first frame wrote
C26_Witness ==
    /\ iterations = 2
    /\ CallsOf("endFrame") # {}
    /\ frameLog[3] = [op |-> "writeToBuffer", slot |-> 1]
    /\ uboBuffers[1] = 2
    /\ uboBuffers[0] = 1

\* C28: onEvent calls the systems' onEvent one at a time in order, each at
\* most once, up to and including the first system that marks the event
\* handled; when the application's own dispatch has marked it handled no
\* system is called.
C28_DeliveryStopsWhenHandled ==
    evLog.op = "onEvent"
    => LET received == evLog.received
       IN /\ \A i, j \in 1 .. Len(received) : i < j => received[i] < received[j]
          /\ \A i \in 1 .. Len(received) : received[i] \in m_systems
          /\ evLog.handledByApplication => received = <<>>
          /\ \A i, j \in 1 .. Len(received) :
                i < j => received[i] \notin evLog.handles
          /\ \A k \in m_systems :
                (/\ ~evLog.handledByApplication
                 /\ \A h \in evLog.handles : k <= h)
                   => \E i \in 1 .. Len(received) : received[i] = k

\* the first system let the event pass, the second marked it handled and the
\* third did not get it
C28_Witness ==
    /\ evLog.op = "onEvent"
    /\ evLog.handles = {2, 3}
    /\ evLog.received = <<1, 2>>
    /\ m_handled

\* C29: once a WindowCloseEvent has been delivered to onEvent, m_running is
\* false and stays false, isRunning() is false, no further iteration of the
\* loop is started, run returns only from vkDeviceWaitIdle, and run does
\* return.
C29_CloseEndsRun ==
    /\ [](closeDelivered => (~m_running /\ ~isRunning))
    /\ [][~m_running => ~m_running']_vars
    /\ [][closeDelivered => iterations' = iterations]_vars
    /\ [][runPc' = "returned" => runPc \in {"waitIdle", "returned"}]_vars
    /\ (closeDelivered ~> runPc = "returned")

\* run has returned after a WindowCloseEvent that left the window's own close
\* flag unset
C29_Witness ==
    /\ closeDelivered
    /\ ~shouldClose
    /\ ~m_running
    /\ runPc = "returned"

----------------------------------------------------------------------------
(* Claims about Model::Builder::loadModel (SpecLoad).                        *)

\* the first input position whose index builds vertex v
FirstOccurrence(v) ==
    CHOOSE k \in 1 .. Len(meshIndices) :
        /\ VertexOf(meshIndices[k]) = v
        /\ \A j \in 1 .. (k - 1) : VertexOf(meshIndices[j]) # v

\* C30: after loadModel has processed the mesh indices, vertices holds no two
\* equal vertices, indices has one entry per input index in input order, each
\* entry is below vertices.size() and names the vertex built from that input
\* index, vertices are in order of first occurrence, and nothing of an earlier
\* load is left.
C30_LoadModelDeduplicates ==
    loadPc = "loaded"
    => /\ \A i, j \in 1 .. Len(vertices) : i # j => vertices[i] # vertices[j]
       /\ Len(indices) = Len(meshIndices)
       /\ \A k \in 1 .. Len(indices) :
             /\ indices[k] \in 0 .. (Len(vertices) - 1)
             /\ vertices[indices[k] + 1] = VertexOf(meshIndices[k])
       /\ \A i \in 1 .. Len(vertices) :
             \E k \in 1 .. Len(meshIndices) : VertexOf(meshIndices[k]) = vertices[i]
       /\ \A i, j \in 1 .. Len(vertices) :
             i < j => FirstOccurrence(vertices[i]) < FirstOccurrence(vertices[j])

\* three indices, the third of which builds the vertex of the first, were
\* loaded into a builder that held an earlier load
C30_Witness ==
    /\ loadPc = "loaded"
    /\ Len(meshIndices) = 3
    /\ VertexOf(meshIndices[1]) = VertexOf(meshIndices[3])
    /\ VertexOf(meshIndices[1]) # VertexOf(meshIndices[2])
    /\ meshIndices[1] # meshIndices[3]
    /\ indices = <<0, 1, 0>>
    /\ Len(vertices) = 2

----------------------------------------------------------------------------
(* Claims about the mesh-instance buffer (SpecMesh).                         *)

\* the renderable entities of the scene, in iteration order
RenderableEntities ==
    SelectSeq(sceneEntities, Renderable)

\* the records match the renderable entities one to one, in order
RecordsMatchScene ==
    /\ Len(m_meshInstanceData) = Len(RenderableEntities)
    /\ \A k \in 1 .. Len(m_meshInstanceData) :
          /\ m_meshInstanceData[k].materialIndex
                = MaterialIndex(RenderableEntities[k].material)
          /\ m_meshInstanceData[k].vertexBufferAddress
                = VertexBufferAddress(RenderableEntities[k].mesh)
          /\ m_meshInstanceData[k].indexBufferAddress
                = IndexBufferAddress(RenderableEntities[k].mesh)
          /\ m_meshInstanceData[k].textureTilingFactor
                = RenderableEntities[k].tilingFactor

\* C25: building the mesh-instance buffer for a scene with N renderable
\* entities emits exactly N records in entity-iteration order; the k-th record
\* holds the Material Registry's index of the k-th renderable entity's
\* material, the device addresses of its mesh buffers and its tiling factor;
\* entities that are not renderable get no record.
C25_OneRecordPerRenderable ==
    [][meshBuilds' = meshBuilds + 1 => RecordsMatchScene']_vars

\* a scene of two renderable entities around one that is not was built after
\* an earlier build: two records, with material indices 2 and 0
C25_Witness ==
    /\ meshBuilds = 2
    /\ Len(sceneEntities) = 3
    /\ Renderable(sceneEntities[1])
    /\ ~Renderable(sceneEntities[2])
    /\ Renderable(sceneEntities[3])
    /\ Len(m_meshInstanceData) = 2
    /\ m_meshInstanceData[1].materialIndex = 2
    /\ m_meshInstanceData[2].materialIndex = 0
    /\ m_meshInstanceData[2].textureTilingFactor = 50

----------------------------------------------------------------------------
(* Specifications *)

NextAlign ==
    GetAlignmentCall

InitSpec ==
    InitBuffer /\ ParkedAlign /\ ParkedPool /\ ParkedWriter /\ ParkedLayout /\ ParkedGrow /\ ParkedModel /\ ParkedEvent /\ ParkedApp /\ ParkedLoad /\ ParkedMesh

InitSpecAlign ==
    InitAlign /\ ParkedBuffer /\ ParkedPool /\ ParkedWriter /\ ParkedLayout /\ ParkedGrow /\ ParkedModel /\ ParkedEvent /\ ParkedApp /\ ParkedLoad /\ ParkedMesh

InitSpecPool ==
    InitPool /\ ParkedWriter /\ ParkedLayout /\ ParkedAlign /\ ParkedBuffer /\ ParkedGrow /\ ParkedModel /\ ParkedEvent /\ ParkedApp /\ ParkedLoad /\ ParkedMesh

InitSpecWriter ==
    InitWriterPool /\ InitWriter /\ ParkedAlign /\ ParkedBuffer /\ ParkedGrow /\ ParkedModel /\ ParkedEvent /\ ParkedApp /\ ParkedLoad /\ ParkedMesh

InitSpecGrow ==
    InitGrow /\ ParkedAlign /\ ParkedBuffer /\ ParkedPool /\ ParkedWriter /\ ParkedLayout /\ ParkedModel /\ ParkedEvent /\ ParkedApp /\ ParkedLoad /\ ParkedMesh

InitSpecLayoutUse ==
    InitWriterPool /\ InitWriterAnyBuild /\ ParkedAlign /\ ParkedBuffer /\ ParkedGrow /\ ParkedModel /\ ParkedEvent /\ ParkedApp /\ ParkedLoad /\ ParkedMesh

InitSpecLayout ==
    InitLayout /\ ParkedAlign /\ ParkedBuffer /\ ParkedPool /\ ParkedWriter /\ ParkedGrow /\ ParkedModel /\ ParkedEvent /\ ParkedApp /\ ParkedLoad /\ ParkedMesh

InitSpecLife ==
    /\ InitBufferAnyMemory
    /\ ParkedAlign /\ ParkedPool /\ ParkedWriter /\ ParkedLayout /\ ParkedGrow /\ ParkedModel /\ ParkedEvent /\ ParkedApp /\ ParkedLoad /\ ParkedMesh

InitSpecCtor ==
    InitCtor /\ ParkedPool /\ ParkedWriter /\ ParkedLayout /\ ParkedGrow /\ ParkedModel /\ ParkedEvent /\ ParkedApp /\ ParkedLoad /\ ParkedMesh

InitSpecModel ==
    InitModel /\ ParkedAlign /\ ParkedBuffer /\ ParkedPool /\ ParkedWriter /\ ParkedGrow /\ ParkedEvent /\ ParkedApp /\ ParkedLoad /\ ParkedMesh

InitSpecEvent ==
    /\ InitEvent
    /\ ParkedAlign /\ ParkedBuffer /\ ParkedPool /\ ParkedWriter /\ ParkedLayout /\ ParkedGrow
    /\ ParkedModel /\ ParkedApp /\ ParkedLoad /\ ParkedMesh

InitSpecApp ==
    /\ InitApp
    /\ ParkedAlign /\ ParkedBuffer /\ ParkedPool /\ ParkedWriter /\ ParkedLayout /\ ParkedGrow
    /\ ParkedModel /\ ParkedLoad /\ ParkedMesh

InitSpecLoad ==
    /\ InitLoad
    /\ ParkedAlign /\ ParkedBuffer /\ ParkedPool /\ ParkedWriter /\ ParkedLayout /\ ParkedGrow
    /\ ParkedModel /\ ParkedEvent /\ ParkedApp /\ ParkedMesh

InitSpecMesh ==
    /\ InitMesh
    /\ ParkedAlign /\ ParkedBuffer /\ ParkedPool /\ ParkedWriter /\ ParkedLayout /\ ParkedGrow
    /\ ParkedModel /\ ParkedEvent /\ ParkedApp /\ ParkedLoad

Spec ==
    InitSpec /\ [][NextBuffer]_vars

SpecModel ==
    InitSpecModel /\ [][NextModel]_vars

SpecEvent ==
    InitSpecEvent /\ [][NextEvent]_vars

SpecApp ==
    InitSpecApp /\ [][NextApp]_vars

SpecLoad ==
    InitSpecLoad /\ [][NextLoad]_vars

SpecMesh ==
    InitSpecMesh /\ [][NextMesh]_vars

\* run is one thread: whatever step it is at, it takes it
SpecAppFair ==
    InitSpecApp /\ [][NextApp]_vars /\ WF_vars(NextApp)

SpecCtor ==
    InitSpecCtor /\ [][NextCtor]_vars

SpecLife ==
    InitSpecLife /\ [][NextLife]_vars

SpecFlush ==
    InitSpec /\ [][NextFlush]_vars

SpecAlign ==
    InitSpecAlign /\ [][NextAlign]_vars

SpecPool ==
    InitSpecPool /\ [][NextPool]_vars

SpecWriter ==
    InitSpecWriter /\ [][NextWriter]_vars

SpecGrow ==
    InitSpecGrow /\ [][NextGrow]_vars

SpecLayout ==
    InitSpecLayout /\ [][NextLayout]_vars

SpecLayoutUse ==
    InitSpecLayoutUse /\ [][NextLayoutUse]_vars

=============================================================================
